---- MODULE Spec2Model ----
(***************************************************************************)
(* Fresh-to-Octa: the Freshdesk -> MySQL staging sync                      *)
(* (fresh_to_supa_stage_public.py), the corrective downloader             *)
(* (corretivo.py) and the folder check (verificar_anexos.py), as state     *)
(* machines.                                                               *)
(*                                                                         *)
(*   SpecOctaContact, SpecOctaOrg                                          *)
(*       the destination (Octadesk) identity resolver and its process-wide *)
(*       caches                                                            *)
(*   SpecCorr                                                              *)
(*       corretivo's process_tickets and its .done markers, run, stopped   *)
(*       and re-run                                                        *)
(*   SpecFdGet, SpecFdGetFair                                              *)
(*       the retrying fd_get of corretivo.py and verificar_anexos.py       *)
(*   SpecSync                                                              *)
(*       sync_tickets run and re-run over one database, one service after  *)
(*       the other allowed to fail                                         *)
(*   SpecAtt                                                               *)
(*       sync_tickets over one ticket, the file server answering the       *)
(*       attachment downloads in every way                                 *)
(*   SpecList, SpecListFair                                                *)
(*       the target ids of sync_tickets, given on the command line or      *)
(*       listed page by page, and the run over them                        *)
(*   SpecRows, SpecDl                                                      *)
(*       one call of build_company_row, of corretivo's download_binary     *)
(*   SpecVer                                                               *)
(*       one run of the main of verificar_anexos.py                        *)
(*                                                                         *)
(* Texts the code inspects character by character are sequences of         *)
(* one-character strings; << >> is the empty or missing text.              *)
(***************************************************************************)
EXTENDS Integers, Sequences, FiniteSets, TLC

(***************************************************************************)
(* Bounds of the model.                                                    *)
(***************************************************************************)
MaxOctaCalls == 3
MaxCorrRuns == 2

(***************************************************************************)
(* Python's None, one value per type of the model.                         *)
(***************************************************************************)
NoneStr == "None"
NoneId == -1
NoneInt == -1
NoneItem == [id |-> NoneStr, organization |-> NoneStr]

(***************************************************************************)
(* Text.  A Python str that the code inspects character by character       *)
(* (file names, URLs) is a sequence of one-character strings; << >> stands *)
(* for both "" and None where the code only tests truthiness.              *)
(***************************************************************************)
UpperChars == <<"A","B","C","D","E","F","G","H","I","J","K","L","M",
                "N","O","P","Q","R","S","T","U","V","W","X","Y","Z">>
LowerChars == <<"a","b","c","d","e","f","g","h","i","j","k","l","m",
                "n","o","p","q","r","s","t","u","v","w","x","y","z">>
Digits == {"0","1","2","3","4","5","6","7","8","9"}

LowerChar(c) ==
    IF \E i \in DOMAIN UpperChars : UpperChars[i] = c
    THEN LowerChars[CHOOSE i \in DOMAIN UpperChars : UpperChars[i] = c]
    ELSE c

\* s.lower()
Lower(s) == [i \in DOMAIN s |-> LowerChar(s[i])]

\* pat in s
Contains(s, pat) ==
    \E i \in 0..(Len(s) - Len(pat)) : SubSeq(s, i + 1, i + Len(pat)) = pat

\* re.search(r"image0+\d", s)
MatchesImage0Digit(s) ==
    \E i \in 0..(Len(s) - 7) :
        /\ SubSeq(s, i + 1, i + 5) = <<"i","m","a","g","e">>
        /\ \E j \in (i + 6)..(Len(s) - 1) :
              /\ \A k \in (i + 6)..j : s[k] = "0"
              /\ s[j + 1] \in Digits

\* The characters safe_filename replaces: < > : " / \ | ? * and 0x00-0x1F
\* ("\t" and "\n" stand for the control characters).
IllegalChars == {"<", ">", ":", "\"", "/", "\\", "|", "?", "*", "\t", "\n"}

SafeNameLen == 180

\* safe_filename: re.sub(r'[<>:"/\\|?*\x00-\x1F]', "_", name)[:180]
safe_filename(name) ==
    LET sub == [i \in DOMAIN name |->
                  IF name[i] \in IllegalChars THEN "_" ELSE name[i]]
    IN IF Len(sub) > SafeNameLen THEN SubSeq(sub, 1, SafeNameLen) ELSE sub

\* url.split("/")[-1].split("?")[0]
UrlTail(url) ==
    LET slashes == {i \in DOMAIN url : url[i] = "/"}
        start == IF slashes = {} THEN 1
                 ELSE 1 + CHOOSE i \in slashes : \A j \in slashes : j <= i
        last == SubSeq(url, start, Len(url))
        marks == {i \in DOMAIN last : last[i] = "?"}
        stop == IF marks = {} THEN Len(last)
                ELSE (CHOOSE i \in marks : \A j \in marks : i <= j) - 1
    IN SubSeq(last, 1, stop)

Max(a, b) == IF a >= b THEN a ELSE b

Min(a, b) == IF a <= b THEN a ELSE b

\* x or y, on text
OrElse(x, y) == IF x # << >> THEN x ELSE y

S_attachment == <<"a","t","t","a","c","h","m","e","n","t">>
S_logo_png == <<"l","o","g","o",".","p","n","g">>
S_Logo_PNG == <<"L","o","g","o",".","P","N","G">>
S_report_pdf == <<"r","e","p","o","r","t",".","p","d","f">>

S_invoice_pdf == <<"i","n","v","o","i","c","e",".","p","d","f">>
S_image001_png == <<"i","m","a","g","e","0","0","1",".","p","n","g">>
S_photo_jpg == <<"p","h","o","t","o",".","j","p","g">>
S_setup_exe == <<"s","e","t","u","p",".","e","x","e">>
S_a_b_txt == <<"a",":","b",".","t","x","t">>
UrlBase == <<"h","t","t","p","s",":","/","/","f","d","/">>
UrlQuery == <<"?","t","=","1">>
\* A name of 204 characters with two that no file name may hold, and a last
\* URL segment of 180 characters.
S_long_name == <<"q", "?", ":">> \o [i \in 1..197 |-> "n"] \o <<".","p","d","f">>
S_long_tail == [i \in 1..176 |-> "x"] \o <<".","p","n","g">>
S_signature_dir == <<"s","i","g","n","a","t","u","r","e","/">>

\* The download URL the helpdesk gives for a file named `name`.
UrlOf(name) == UrlBase \o name \o UrlQuery

(***************************************************************************)
(* The Octadesk resolver.                                                  *)
(***************************************************************************)
VARIABLES
    octaContactByEmail,   \* _OCTA_CONTACT_BY_EMAIL : email -> item
    octaContactByCf,      \* _OCTA_CONTACT_BY_CF    : <<prop, value>> -> item
    octaOrgByName,        \* _OCTA_ORG_BY_NAME      : name -> item
    octaOrgByCf,          \* _OCTA_ORG_BY_CF        : <<prop, value>> -> item
    octaReqs,             \* requests sent to the destination API: lookup key -> count
    octa_contact_cf_key,  \* OCTA_CONTACT_FRESH_ID_KEY of the run
    octa_org_cf_key,      \* OCTA_ORG_FRESH_ID_KEY of the run
    octaCalls,            \* resolver calls made in this run
    octaLast,             \* the last resolver call: its arguments and outcome
    octaInvalidSeen,      \* an organization lookup was answered INVALID_PROPERTY
    octaResolved          \* email -> the item its lookup by email matched

octaVars == <<octaContactByEmail, octaContactByCf, octaOrgByName, octaOrgByCf,
              octaReqs, octa_contact_cf_key, octa_org_cf_key, octaCalls,
              octaLast, octaInvalidSeen, octaResolved>>

(***************************************************************************)
(* corretivo.py: process_tickets and what it leaves on disk.               *)
(***************************************************************************)
VARIABLES
    corrTickets,      \* the ticket ids given to process_tickets
    corrRemote,       \* ticket id -> the ticket the helpdesk serves
    corrMinKb,        \* --min-attach-kb
    corrBatchSize,    \* --batch-size
    corrBlockSig,     \* block_signature_like
    corrNet,          \* what the helpdesk and the file server may answer
    corrI,            \* i of the batch loop
    corrJ,            \* offset of the current ticket in its batch
    corrMarkers,      \* ticket ids with a .state/ticket_<id>.done file
    corrDirs,         \* ticket ids with a folder under the download dir
    corrFiles,        \* <<ticket id, file name>> -> what was written there
    corrFetches,      \* ticket id -> calls of fd_get_ticket_full
    corrDls,          \* download requests sent, in order
    corrProcessed,    \* processed
    corrSavedTotal,   \* saved_total
    corrRuns,         \* runs of process_tickets started so far
    corrLast          \* the last ticket handled and how

corrVars == <<corrTickets, corrRemote, corrMinKb, corrBatchSize, corrBlockSig,
              corrNet,
              corrI, corrJ, corrMarkers, corrDirs, corrFiles, corrFetches,
              corrDls, corrProcessed, corrSavedTotal, corrRuns, corrLast>>

(***************************************************************************)
(* fresh_to_supa_stage_public.py: sync_tickets, the attachment collectors  *)
(* and the MySQL tables.                                                   *)
(***************************************************************************)
VARIABLES
    cfg,           \* the parameters of sync_tickets
    found_ids,     \* the ticket ids of the run
    idx,           \* 1-based position in found_ids
    pc,            \* where sync_tickets is in the body of its loop
    full,          \* the ticket fetched for found_ids[idx]
    batch_rows,    \* ticket rows not yet written
    conv_to_msg,   \* conversation id -> message id of the current ticket
    atts,          \* attachments collected for the current ticket
    attI,          \* position in the attachments / inline URLs being collected
    ERRORS,        \* the ledger filled by log_error
    db,            \* the MySQL tables, each a list of rows
    dbLog,         \* the writes committed in this run, in order
    files,         \* <<ticket id, name>> -> bytes stored under download_dir
    dlReqs,        \* URLs of the download requests sent in this run
    lastDl,        \* the download request of the last collector pass
    lastFetch,     \* the last fetch of a ticket: its id, requests and answer
    runsDone,      \* how each earlier run of the script ended
    world          \* what the services around the run may answer

syncVars == <<cfg, found_ids, idx, pc, full, batch_rows, conv_to_msg, atts,
              attI, ERRORS, db, dbLog, files, dlReqs, lastDl, lastFetch, runsDone,
              world>>

(***************************************************************************)
(* corretivo.py / verificar_anexos.py: one call of the retrying fd_get.    *)
(***************************************************************************)
VARIABLES
    max_retries,   \* the parameter of the call
    attempt,       \* the call's local retry counter
    fdPc,          \* "request" in the loop, "returned" or "raised" after it
    fdRequests,    \* requests issued by this call
    fdResp,        \* the last answer sess.get met
    fdSlept,       \* seconds slept since that answer, NoSleep if none
    fdNetWait,     \* the last wait of this call after a network failure
    fdCalls        \* calls of fd_get made so far

fdVars == <<max_retries, attempt, fdPc, fdRequests, fdResp, fdSlept,
           fdNetWait, fdCalls>>

(***************************************************************************)
(* fresh_to_supa_stage_public.py: the ids sync_tickets is to process, given *)
(* on the command line or listed page by page with fd_paginate_tickets.    *)
(***************************************************************************)
VARIABLES
    argv,          \* --ticket-id values and --ticket-ids tokens of the command line
    ticket_ids,    \* the parameter of sync_tickets, << >> when None
    page_size,     \* the parameter handed to fd_paginate_tickets as per_page
    period,        \* created_from, created_to, updated_from, updated_to
    updated_since, \* the --since parameter, NoneInt when not given
    page,          \* the generator's page counter
    data,          \* the page the generator is yielding from
    dataI,         \* position of the next item of data to yield
    listReqs,      \* the listing requests sent, in order
    yielded,       \* the ids of the items yielded, in order
    srv            \* the helpdesk's listing and how it answers

listVars == <<argv, ticket_ids, page_size, period, updated_since, page, data,
              dataI, listReqs, yielded, srv>>

(***************************************************************************)
(* One call of a function of the scripts that depends on its arguments     *)
(* only: build_company_row, corretivo's download_binary.                   *)
(***************************************************************************)
VARIABLES
    fnArg,         \* the arguments of the call
    fnRet          \* what the call returned, NoRet before it

pureVars == <<fnArg, fnRet>>

(***************************************************************************)
(* verificar_anexos.py: main, the download directory and the database.     *)
(***************************************************************************)
VARIABLES
    verWorld,          \* the tickets table, how the SELECT goes, what fails
    verPc,             \* "read", "orphans", "missing", "state", "done"
    db_ticket_ids,     \* what get_all_ticket_ids_from_db returned
    local_ticket_ids,  \* what get_existing_ticket_folders returned at the start
    verTodo,           \* the ids the running loop has still to visit
    verFolders,        \* the ticket folders under the download directory
    verOld,            \* the ticket folders under old/
    verMarkers,        \* the ids with a .state/ticket_<id>.done file
    verCreated         \* the markers this run created

verVars == <<verWorld, verPc, db_ticket_ids, local_ticket_ids, verTodo,
             verFolders, verOld, verMarkers, verCreated>>

sideVars == <<pureVars, verVars>>

vars == <<octaVars, corrVars, syncVars, fdVars, listVars, sideVars>>

\* What the destination knows: contacts and organizations a lookup may return.
OctaContactItems ==
    { [id |-> "oc1", organization |-> "oo1"],
      [id |-> "oc2", organization |-> NoneStr] }
OctaOrgItems ==
    { [id |-> "oo1", organization |-> NoneStr],
      [id |-> "oo2", organization |-> NoneStr] }

\* A response of octa_get: a payload whose first item is `item`, a payload
\* without items, an HTTP error (raise_for_status) with a body, or any other
\* exception (timeout, connection reset).
OctaResp(items) ==
    [kind : {"item"}, item : items, body : {""}]
    \cup [kind : {"empty"}, item : {NoneItem}, body : {""}]
    \cup [kind : {"http_error"}, item : {NoneItem},
          body : {"INVALID_PROPERTY", "Bad Request"}]
    \cup [kind : {"exception"}, item : {NoneItem}, body : {""}]

Emails == {"a@b.com", "c@d.com"}
FreshContactIds == {11, 12}
FreshCompanyIds == {21, 22}
CompanyNames == {"Acme", "Bolt"}
CfKeys == {"fresh_id"}

\* str(n) of the ids of the model.
StrOfInt(n) ==
    CASE n = 11 -> "11" [] n = 12 -> "12" [] n = 21 -> "21" [] n = 22 -> "22"
      [] OTHER -> "?"

\* f"customFields.{cf_key}"
CfProp(cf_key) == <<"customFields.", cf_key>>

\* d[k] = v on a dict held as a function.
DictSet(d, k, v) == [x \in DOMAIN d \cup {k} |-> IF x = k THEN v ELSE d[x]]

EmptyDict == [x \in {} |-> NoneItem]

\* "INVALID_PROPERTY" in txt
HasInvalidProperty(body) == body = "INVALID_PROPERTY"

CacheContactByEmail_NoStore(cache, email, item) == cache

\* The cache write of octa_find_contact after a match by email.
CacheContactByEmail(cache, email, item) == DictSet(cache, email, item)

\* octa_find_contact.  r1 answers the lookup by email and r2 the lookup by
\* custom field, when the call gets to send them.  The result holds the
\* returned item, the caches after the call and the requests sent.
octa_find_contact(byEmail, byCf, email, fresh_contact_id, cf_key, r1, r2) ==
    LET hasEmail == email # NoneStr /\ email # ""
        emailHit == hasEmail /\ email \in DOMAIN byEmail
        emailReq == hasEmail /\ ~emailHit
        emailFound == emailReq /\ r1.kind = "item"
        byEmail2 == IF emailFound THEN CacheContactByEmail(byEmail, email, r1.item)
                    ELSE byEmail
        cfTry == ~emailHit /\ ~emailFound
                 /\ cf_key # NoneStr /\ cf_key # "" /\ fresh_contact_id # NoneId
        cache_k == <<CfProp(cf_key), StrOfInt(fresh_contact_id)>>
        cfHit == cfTry /\ cache_k \in DOMAIN byCf
        cfReq == cfTry /\ ~cfHit
        cfFound == cfReq /\ r2.kind = "item"
        byCf2 == IF cfFound THEN DictSet(byCf, cache_k, r2.item) ELSE byCf
        reqs == (IF emailReq THEN << <<"contact_email", email>> >> ELSE << >>)
                \o (IF cfReq THEN << <<"contact_cf", cache_k>> >> ELSE << >>)
        ret == IF emailHit THEN byEmail[email]
               ELSE IF emailFound THEN r1.item
               ELSE IF cfHit THEN byCf[cache_k]
               ELSE IF cfFound THEN r2.item
               ELSE NoneItem
    IN [ret |-> ret, byEmail |-> byEmail2, byCf |-> byCf2, reqs |-> reqs,
        emailFound |-> emailFound]

\* octa_find_organization.  r1 answers the lookup by custom field and r2 the
\* lookup by name.  try_filters is a local of the call.
octa_find_organization(byName, byCf, name, fresh_company_id, cf_key, r1, r2) ==
    LET cfTry == cf_key # NoneStr /\ cf_key # "" /\ fresh_company_id # NoneId
        cache_k == <<CfProp(cf_key), StrOfInt(fresh_company_id)>>
        cfHit == cfTry /\ cache_k \in DOMAIN byCf
        cfReq == cfTry /\ ~cfHit
        cfFound == cfReq /\ r1.kind = "item"
        byCf2 == IF cfFound THEN DictSet(byCf, cache_k, r1.item) ELSE byCf
        invalid == cfReq /\ r1.kind = "http_error" /\ HasInvalidProperty(r1.body)
        try_filters == ~invalid
        nameTry == ~cfHit /\ ~cfFound /\ try_filters /\ name # NoneStr /\ name # ""
        nameHit == nameTry /\ name \in DOMAIN byName
        nameReq == nameTry /\ ~nameHit
        nameFound == nameReq /\ r2.kind = "item"
        byName2 == IF nameFound THEN DictSet(byName, name, r2.item) ELSE byName
        reqs == (IF cfReq THEN << <<"org_cf", cache_k>> >> ELSE << >>)
                \o (IF nameReq THEN << <<"org_name", name>> >> ELSE << >>)
        ret == IF cfHit THEN byCf[cache_k]
               ELSE IF cfFound THEN r1.item
               ELSE IF nameHit THEN byName[name]
               ELSE IF nameFound THEN r2.item
               ELSE NoneItem
    IN [ret |-> ret, byName |-> byName2, byCf |-> byCf2, reqs |-> reqs,
        invalid |-> invalid]

\* Every key a lookup request can carry.
OctaKeys ==
    ({"contact_email"} \X Emails)
    \cup ({"contact_cf", "org_cf"}
          \X ({CfProp(k) : k \in CfKeys}
              \X {StrOfInt(n) : n \in FreshContactIds \cup FreshCompanyIds}))
    \cup ({"org_name"} \X CompanyNames)

\* The request log after the requests `reqs` of one call.
CountReqs(log, reqs) ==
    [k \in DOMAIN log |->
        log[k] + Cardinality({i \in DOMAIN reqs : reqs[i] = k})]

NoCall == [fn |-> "none", email |-> NoneStr, ret |-> NoneItem, nreq |-> 0,
           hit |-> FALSE]

OctaInit ==
    /\ octaContactByEmail = EmptyDict
    /\ octaContactByCf = EmptyDict
    /\ octaOrgByName = EmptyDict
    /\ octaOrgByCf = EmptyDict
    /\ octaReqs = [k \in OctaKeys |-> 0]
    /\ octa_contact_cf_key \in CfKeys \cup {NoneStr}
    /\ octa_org_cf_key \in CfKeys \cup {NoneStr}
    /\ octaCalls = 0
    /\ octaLast = NoCall
    /\ octaInvalidSeen = FALSE
    /\ octaResolved = EmptyDict

\* No resolver call is made.
OctaIdle ==
    /\ OctaInit
    /\ octa_contact_cf_key = NoneStr
    /\ octa_org_cf_key = NoneStr

\* One call of octa_find_contact from the orchestrator.
FindContact ==
    /\ octaCalls < MaxOctaCalls
    /\ \E email \in Emails \cup {NoneStr},
          cid \in FreshContactIds,
          r1 \in OctaResp(OctaContactItems),
          r2 \in OctaResp(OctaContactItems) :
        LET res == octa_find_contact(octaContactByEmail, octaContactByCf,
                                     email, cid, octa_contact_cf_key, r1, r2)
        IN /\ octaContactByEmail' = res.byEmail
           /\ octaContactByCf' = res.byCf
           /\ octaReqs' = CountReqs(octaReqs, res.reqs)
           /\ octaLast' = [fn |-> "contact", email |-> email,
                           ret |-> res.ret, nreq |-> Len(res.reqs),
                           hit |-> email \in DOMAIN octaContactByEmail]
           /\ octaResolved' = IF res.emailFound
                               THEN DictSet(octaResolved, email, r1.item)
                               ELSE octaResolved
    /\ octaCalls' = octaCalls + 1
    /\ UNCHANGED <<octaOrgByName, octaOrgByCf, octaInvalidSeen,
                   octa_contact_cf_key, octa_org_cf_key>>

\* One call of octa_find_organization from the orchestrator.
FindOrganization ==
    /\ octaCalls < MaxOctaCalls
    /\ \E name \in CompanyNames \cup {NoneStr},
          coid \in FreshCompanyIds,
          r1 \in OctaResp(OctaOrgItems),
          r2 \in OctaResp(OctaOrgItems) :
        LET res == octa_find_organization(octaOrgByName, octaOrgByCf,
                                          name, coid, octa_org_cf_key, r1, r2)
        IN /\ octaOrgByName' = res.byName
           /\ octaOrgByCf' = res.byCf
           /\ octaReqs' = CountReqs(octaReqs, res.reqs)
           /\ octaInvalidSeen' = (octaInvalidSeen \/ res.invalid)
           /\ octaLast' = [fn |-> "org", email |-> NoneStr,
                           ret |-> res.ret, nreq |-> Len(res.reqs),
                           hit |-> FALSE]
    /\ octaCalls' = octaCalls + 1
    /\ UNCHANGED <<octaContactByEmail, octaContactByCf, octaResolved,
                   octa_contact_cf_key, octa_org_cf_key>>

(***************************************************************************)
(* corretivo.py                                                            *)
(***************************************************************************)
CorrTids == {1001, 1002}

\* Tickets as fd_get_ticket_full returns them: the ticket's own attachments
\* and those of its conversations, each with a name and an attachment_url.
CorrAtt(name, url) == [name |-> name, attachment_url |-> url]

CorrPayloads ==
    { [attachments |-> << >>, conversations |-> << >>],
      [attachments |-> << CorrAtt(S_invoice_pdf, UrlOf(S_invoice_pdf)) >>,
       conversations |->
          << [attachments |-> << CorrAtt(S_Logo_PNG, UrlOf(S_Logo_PNG)) >>] >>],
      [attachments |-> << >>,
       conversations |->
          << [attachments |-> << CorrAtt(<< >>, UrlOf(S_photo_jpg)) >>],
             [attachments |-> << CorrAtt(S_a_b_txt, << >>) >>] >>] }

RECURSIVE FlattenConvAtts(_)
FlattenConvAtts(convs) ==
    IF convs = << >> THEN << >>
    ELSE Head(convs).attachments \o FlattenConvAtts(Tail(convs))

\* The order in which collect_and_download_attachments visits attachments.
CorrAttsOf(ticket) == ticket.attachments \o FlattenConvAtts(ticket.conversations)

\* What a download request meets: a 200 with a Content-Length header (-1:
\* no header) and a body, a request that fails before the body (an HTTP
\* error status, a timeout: both are a RequestException), or a connection
\* lost while the body is streamed to the file.
CorrDlOutcomes ==
    { [kind |-> "ok", clen |-> -1, body |-> 51200],
      [kind |-> "ok", clen |-> 1024, body |-> 1024],
      [kind |-> "ok", clen |-> 51200, body |-> 51200],
      [kind |-> "http_error", clen |-> -1, body |-> 0],
      [kind |-> "broken_stream", clen |-> 51200, body |-> 8192] }

\* ATT_NAME_SIG_RE.search(fn), re.I
CorrSignatureLike(fn) ==
    LET n == Lower(fn)
    IN \/ \E pat \in { <<"l","o","g","o">>,
                       <<"a","s","s","i","n","a","t","u","r","a">>,
                       <<"s","i","g","n","a","t","u","r","e">>,
                       <<"r","o","d","a","p","e">>,
                       <<"f","o","o","t","e","r">>,
                       <<"f","a","c","e","b","o","o","k">>,
                       <<"i","n","s","t","a","g","r","a","m">>,
                       <<"l","i","n","k","e","d","i","n">>,
                       <<"t","w","i","t","t","e","r">>,
                       <<"w","h","a","t","s","a","p","p">> } : Contains(n, pat)
       \/ MatchesImage0Digit(n)

\* download_binary: [ok, size] and the file it leaves at dest, if any.
download_binary(url, min_bytes, o) ==
    LET size == IF o.clen = -1 THEN 0 ELSE o.clen
    IN IF o.kind = "http_error"
       THEN [ok |-> FALSE, size |-> 0, wrote |-> FALSE, complete |-> FALSE]
       ELSE IF size < min_bytes
       THEN [ok |-> FALSE, size |-> size, wrote |-> FALSE, complete |-> FALSE]
       ELSE IF o.kind = "broken_stream"
       THEN [ok |-> FALSE, size |-> 0, wrote |-> TRUE, complete |-> FALSE]
       ELSE [ok |-> TRUE, size |-> size, wrote |-> TRUE, complete |-> TRUE]

\* handle_one of collect_and_download_attachments, on the running result.
CorrHandleOne(acc, a, tid, min_bytes, block, o) ==
    LET url == a.attachment_url
        fn == safe_filename(OrElse(a.name, OrElse(UrlTail(url), S_attachment)))
        r == download_binary(url, min_bytes, o)
    IN IF url = << >> THEN acc
       ELSE IF block /\ CorrSignatureLike(fn) THEN acc
       ELSE [saved |-> acc.saved + (IF r.ok THEN 1 ELSE 0),
             files |-> IF r.wrote
                       THEN DictSet(acc.files, <<tid, fn>>,
                                    [url |-> url, bytes |-> o.body,
                                     complete |-> r.complete])
                       ELSE acc.files,
             dls |-> Append(acc.dls, url)]

RECURSIVE CorrCollectFrom(_, _, _, _, _, _, _)
CorrCollectFrom(acc, alist, outs, i, tid, min_bytes, block) ==
    IF i > Len(alist) THEN acc
    ELSE CorrCollectFrom(CorrHandleOne(acc, alist[i], tid, min_bytes, block, outs[i]),
                         alist, outs, i + 1, tid, min_bytes, block)

\* collect_and_download_attachments; outs[i] is what the i-th attachment's
\* download meets.
collect_and_download_attachments(ticket, tid, fs, min_kb, block, outs) ==
    CorrCollectFrom([saved |-> 0, files |-> fs, dls |-> << >>],
                    CorrAttsOf(ticket), outs, 1, tid,
                    Max(0, min_kb) * 1024, block)

\* Sequences over S without repetition, of length 1..Cardinality(S).
UniqueSeqs(S) ==
    UNION { {q \in [1..n -> S] : \A a, b \in 1..n : a # b => q[a] # q[b]} :
            n \in 1..Cardinality(S) }

\* The URLs of the attachments of the payloads.
CorrUrls == {UrlOf(S_invoice_pdf), UrlOf(S_Logo_PNG), UrlOf(S_photo_jpg)}

CorrFetchOutcomes == {"ok", "http_error", "exception"}

\* The services answering in any way at any request ...
CorrFreeNet ==
    [fetch |-> [t \in CorrTids |-> CorrFetchOutcomes],
     dl |-> [u \in CorrUrls |-> CorrDlOutcomes]]

CorrOkDl == [kind |-> "ok", clen |-> 51200, body |-> 51200]

CorrCalmNet ==
    [fetch |-> [t \in CorrTids |-> {"ok"}],
     dl |-> [u \in CorrUrls |-> {CorrOkDl}]]

\* ... and the services answering a request the same way every time it is
\* made: everything served; one ticket not served; small files; one download
\* refused and one cut while it is streamed.
CorrSteadyNets ==
    { CorrCalmNet,
      [CorrCalmNet EXCEPT !.fetch[1002] = {"http_error"}],
      [CorrCalmNet EXCEPT
         !.dl = [u \in CorrUrls |-> {[kind |-> "ok", clen |-> 1024, body |-> 1024]}]],
      [CorrCalmNet EXCEPT
         !.dl[UrlOf(S_photo_jpg)] = {[kind |-> "http_error", clen |-> -1, body |-> 0]},
         !.dl[UrlOf(S_invoice_pdf)] =
            {[kind |-> "broken_stream", clen |-> 51200, body |-> 8192]}] }

\* What the downloads of the attachments of a ticket may meet.
CorrOutsOf(alist) ==
    { outs \in [1..Len(alist) -> CorrDlOutcomes] :
        \A i \in 1..Len(alist) :
           IF alist[i].attachment_url = << >> THEN outs[i] = CorrOkDl
           ELSE outs[i] \in corrNet.dl[alist[i].attachment_url] }

CorrNoLast == [tid |-> NoneId, skipped |-> FALSE, fetch |-> "none", natts |-> 0]

CorrInit ==
    /\ corrTickets \in UniqueSeqs(CorrTids)
    /\ corrRemote \in [CorrTids -> CorrPayloads]
    /\ corrMinKb \in {0, 5}
    /\ corrBatchSize \in {1, 50}
    /\ corrBlockSig \in BOOLEAN
    /\ corrNet \in {CorrFreeNet} \cup CorrSteadyNets
    /\ corrI = 0
    /\ corrJ = 0
    /\ corrMarkers = {}
    /\ corrDirs = {}
    /\ corrFiles = [x \in {} |-> 0]
    /\ corrFetches = [t \in CorrTids |-> 0]
    /\ corrDls = << >>
    /\ corrProcessed = 0
    /\ corrSavedTotal = 0
    /\ corrRuns = 1
    /\ corrLast = CorrNoLast

\* batch = tickets[i:i+batch_size]
CorrBatch == SubSeq(corrTickets, corrI + 1, Min(corrI + corrBatchSize, Len(corrTickets)))

CorrRunning == corrI < Len(corrTickets)

\* tid of the inner loop
CorrTid == CorrBatch[corrJ + 1]

\* The loops of process_tickets move on to the next ticket.
CorrAdvance ==
    IF corrJ + 1 < Len(CorrBatch)
    THEN corrJ' = corrJ + 1 /\ corrI' = corrI
    ELSE corrJ' = 0 /\ corrI' = corrI + corrBatchSize

corrConfig ==
    <<corrTickets, corrRemote, corrMinKb, corrBatchSize, corrBlockSig, corrNet>>

CorrHasMarker_Never(markers, tid) == FALSE

\* marker.exists(), marker = state_dir / f"ticket_{tid}.done"
CorrHasMarker(markers, tid) == tid \in markers

\* process_tickets reaches a ticket whose marker exists.
CorrSkipMarked ==
    /\ CorrRunning
    /\ CorrHasMarker(corrMarkers, CorrTid)
    /\ corrProcessed' = corrProcessed + 1
    /\ corrLast' = [tid |-> CorrTid, skipped |-> TRUE, fetch |-> "none", natts |-> 0]
    /\ CorrAdvance
    /\ UNCHANGED <<corrConfig, corrMarkers, corrDirs, corrFiles, corrFetches,
                   corrDls, corrSavedTotal, corrRuns>>

\* process_tickets reaches a ticket without marker: the body of the try.
CorrProcessTicket ==
    /\ CorrRunning
    /\ ~CorrHasMarker(corrMarkers, CorrTid)
    /\ \E fetch \in corrNet.fetch[CorrTid] :
        LET tid == CorrTid
            ticket == corrRemote[tid]
            alist == CorrAttsOf(ticket)
        IN /\ corrFetches' = [corrFetches EXCEPT ![tid] = @ + 1]
           /\ IF fetch = "ok"
              THEN \E outs \in CorrOutsOf(alist) :
                     LET res == collect_and_download_attachments(
                                    ticket, tid, corrFiles, corrMinKb, corrBlockSig, outs)
                     IN /\ corrDirs' = corrDirs \cup {tid}
                        /\ corrFiles' = res.files
                        /\ corrDls' = corrDls \o res.dls
                        /\ corrSavedTotal' = corrSavedTotal + res.saved
                        /\ corrMarkers' = corrMarkers \cup {tid}
                        /\ corrProcessed' = corrProcessed + 1
              ELSE UNCHANGED <<corrDirs, corrFiles, corrDls, corrSavedTotal,
                               corrMarkers, corrProcessed>>
           /\ corrLast' = [tid |-> tid, skipped |-> FALSE, fetch |-> fetch,
                           natts |-> Len(alist)]
    /\ CorrAdvance
    /\ UNCHANGED <<corrConfig, corrRuns>>

\* A download cut by the stop of the process: what was written so far stays.
CorrCut(o) ==
    IF o.kind = "ok" THEN [o EXCEPT !.kind = "broken_stream", !.body = 8192]
    ELSE o

\* The stop with the marker of the ticket written before its downloads.
CorrStopInTicket_MarkerFirst ==
    /\ CorrRunning
    /\ ~CorrHasMarker(corrMarkers, CorrTid)
    /\ corrRuns < MaxCorrRuns
    /\ corrNet \in CorrSteadyNets
    /\ "ok" \in corrNet.fetch[CorrTid]
    /\ corrFetches' = [corrFetches EXCEPT ![CorrTid] = @ + 1]
    /\ corrDirs' = corrDirs \cup {CorrTid}
    /\ corrMarkers' = corrMarkers \cup {CorrTid}
    /\ corrRuns' = corrRuns + 1
    /\ corrI' = 0
    /\ corrJ' = 0
    /\ corrProcessed' = 0
    /\ corrSavedTotal' = 0
    /\ corrLast' = CorrNoLast
    /\ UNCHANGED <<corrConfig, corrFiles, corrDls>>

\* The process is stopped (crash, Ctrl-C) inside the try of a ticket without
\* marker, after the ticket was fetched and k of its attachments were
\* handled, the last of them perhaps cut while it was written; the marker is
\* not written.  corretivo is then started again on the same list.  Stops
\* are followed where the services answer steadily, flaky services where
\* the runs are stopped between two tickets.
CorrStopInTicket ==
    /\ CorrRunning
    /\ ~CorrHasMarker(corrMarkers, CorrTid)
    /\ corrRuns < MaxCorrRuns
    /\ corrNet \in CorrSteadyNets
    /\ "ok" \in corrNet.fetch[CorrTid]
    /\ LET tid == CorrTid
           alist == CorrAttsOf(corrRemote[tid])
       IN \E k \in 0..Len(alist), cut \in BOOLEAN :
            \E outs \in CorrOutsOf(SubSeq(alist, 1, k)) :
              LET met == [i \in 1..k |->
                            IF i = k /\ cut THEN CorrCut(outs[i]) ELSE outs[i]]
                  res == CorrCollectFrom(
                            [saved |-> 0, files |-> corrFiles, dls |-> << >>],
                            SubSeq(alist, 1, k), met, 1, tid,
                            Max(0, corrMinKb) * 1024, corrBlockSig)
              IN /\ (cut => k > 0)
                 /\ corrFetches' = [corrFetches EXCEPT ![tid] = @ + 1]
                 /\ corrDirs' = corrDirs \cup {tid}
                 /\ corrFiles' = res.files
                 /\ corrDls' = corrDls \o res.dls
    /\ corrRuns' = corrRuns + 1
    /\ corrI' = 0
    /\ corrJ' = 0
    /\ corrProcessed' = 0
    /\ corrSavedTotal' = 0
    /\ corrLast' = CorrNoLast
    /\ UNCHANGED <<corrConfig, corrMarkers>>

\* The run is stopped (or ends) and corretivo is started again on the same
\* list; the markers and the files on disk stay.
CorrRestart ==
    /\ corrRuns < MaxCorrRuns
    /\ corrRuns' = corrRuns + 1
    /\ corrI' = 0
    /\ corrJ' = 0
    /\ corrProcessed' = 0
    /\ corrSavedTotal' = 0
    /\ corrLast' = CorrNoLast
    /\ UNCHANGED <<corrConfig, corrMarkers, corrDirs, corrFiles, corrFetches, corrDls>>

\* Nothing of corretivo runs.
CorrIdle ==
    /\ corrTickets = << >>
    /\ corrRemote = << >>
    /\ corrMinKb = 0
    /\ corrBatchSize = 1
    /\ corrBlockSig = FALSE
    /\ corrNet = CorrCalmNet
    /\ corrI = 0
    /\ corrJ = 0
    /\ corrMarkers = {}
    /\ corrDirs = {}
    /\ corrFiles = << >>
    /\ corrFetches = << >>
    /\ corrDls = << >>
    /\ corrProcessed = 0
    /\ corrSavedTotal = 0
    /\ corrRuns = MaxCorrRuns
    /\ corrLast = CorrNoLast

(***************************************************************************)
(* The attachment rules of fresh_to_supa_stage_public.py.                  *)
(***************************************************************************)
ALLOWED_DOC_CT ==
    { <<"a","p","p","l","i","c","a","t","i","o","n","/","p","d","f">>,
      <<"a","p","p","l","i","c","a","t","i","o","n","/","m","s","w","o","r",
      "d">>,
      <<"a","p","p","l","i","c","a","t","i","o","n","/","v","n","d",".","o",
      "p","e","n","x","m","l","f","o","r","m","a","t","s","-","o","f","f","i",
      "c","e","d","o","c","u","m","e","n","t",".","w","o","r","d","p","r","o",
      "c","e","s","s","i","n","g","m","l",".","d","o","c","u","m","e","n",
      "t">>,
      <<"a","p","p","l","i","c","a","t","i","o","n","/","v","n","d",".","m",
      "s","-","e","x","c","e","l">>,
      <<"a","p","p","l","i","c","a","t","i","o","n","/","v","n","d",".","o",
      "p","e","n","x","m","l","f","o","r","m","a","t","s","-","o","f","f","i",
      "c","e","d","o","c","u","m","e","n","t",".","s","p","r","e","a","d","s",
      "h","e","e","t","m","l",".","s","h","e","e","t">>,
      <<"a","p","p","l","i","c","a","t","i","o","n","/","v","n","d",".","m",
      "s","-","p","o","w","e","r","p","o","i","n","t">>,
      <<"a","p","p","l","i","c","a","t","i","o","n","/","v","n","d",".","o",
      "p","e","n","x","m","l","f","o","r","m","a","t","s","-","o","f","f","i",
      "c","e","d","o","c","u","m","e","n","t",".","p","r","e","s","e","n","t",
      "a","t","i","o","n","m","l",".","p","r","e","s","e","n","t","a","t","i",
      "o","n">>,
      <<"a","p","p","l","i","c","a","t","i","o","n","/","z","i","p">>,
      <<"a","p","p","l","i","c","a","t","i","o","n","/","x","-","z","i","p",
      "-","c","o","m","p","r","e","s","s","e","d">>,
      <<"a","p","p","l","i","c","a","t","i","o","n","/","v","n","d",".","r",
      "a","r">>,
      <<"a","p","p","l","i","c","a","t","i","o","n","/","x","-","7","z","-",
      "c","o","m","p","r","e","s","s","e","d">>,
      <<"t","e","x","t","/","p","l","a","i","n">> }

DEFAULT_INLINE_BLOCKLIST ==
    { <<"i","t","a","l","a","c",".","c","o","m",".","b","r","/","a","s","s",
      "i","n","a","t","u","r","a","-","i","t","a","l","a","c">>,
      <<"c","d","n",".","o","m","i","e",".","c","o","m",".","b","r","/","p",
      "u","b","l","i","s","h","/","e","m","a","i","l">>,
      <<"p","o","r","t","a","l","d","e","c","o","m","p","r","a","s","s","c",
      "a","l","a",".","c","o","m","/","c","o","n","f","i","g","u","r","a","c",
      "a","o","/","s","c","a","l","a","/","l","o","g","o","_","i","n","t","e",
      "r","n","o",".","j","p","g">>,
      <<"s","t","a","t","i","c","1",".","s","q","u","a","r","e","s","p","a",
      "c","e",".","c","o","m">> }

\* The literal alternatives of SIGNATURE_NAME_RE (image0+\d apart).
SignatureWords ==
    { <<"l","o","g","o">>,
      <<"a","s","s","i","n","a","t","u","r","a">>,
      <<"s","i","g","n","a","t","u","r","e">>,
      <<"r","o","d","a","p","e">>,
      <<"f","o","o","t","e","r">>,
      <<"f","a","c","e","b","o","o","k">>,
      <<"i","n","s","t","a","g","r","a","m">>,
      <<"l","i","n","k","e","d","i","n">>,
      <<"t","w","i","t","t","e","r">>,
      <<"w","h","a","t","s","a","p","p">>,
      <<"t","r","a","c","k","i","n","g">>,
      <<"p","i","x","e","l">> }

CT_octet_stream ==
    <<"a","p","p","l","i","c","a","t","i","o","n","/","o","c","t","e","t","-",
    "s","t","r","e","a","m">>
CT_pdf == <<"a","p","p","l","i","c","a","t","i","o","n","/","p","d","f">>
CT_html == <<"t","e","x","t","/","h","t","m","l">>
CT_png == <<"i","m","a","g","e","/","p","n","g">>
CT_jpeg == <<"i","m","a","g","e","/","j","p","e","g">>
CT_exe ==
    <<"a","p","p","l","i","c","a","t","i","o","n","/","x","-","m","s","d","o",
    "w","n","l","o","a","d">>
S_image_slash == <<"i","m","a","g","e","/">>
S_audio_slash == <<"a","u","d","i","o","/">>
S_video_slash == <<"v","i","d","e","o","/">>
S_inline_ == <<"i","n","l","i","n","e","_">>
S_squarespace_pic ==
    <<"s","t","a","t","i","c","1",".","s","q","u","a","r","e","s","p","a","c",
    "e",".","c","o","m","/","p","i","c",".","p","n","g">>
S_banner_png == <<"b","a","n","n","e","r",".","p","n","g">>

\* s.startswith(prefix)
StartsWith(s, prefix) ==
    Len(s) >= Len(prefix) /\ SubSeq(s, 1, Len(prefix)) = prefix

\* SIGNATURE_NAME_RE.search(s), re.I, on an already lowered s
SignatureSearch(s) ==
    \/ \E w \in SignatureWords : Contains(s, w)
    \/ MatchesImage0Digit(s)

is_signature_like_NameOnly(name, url) == SignatureSearch(Lower(name))

\* is_signature_like
is_signature_like(name, url) ==
    SignatureSearch(Lower(name)) \/ SignatureSearch(Lower(url))

\* content_type_allowed
content_type_allowed(ct) ==
    \/ ct = << >>
    \/ StartsWith(Lower(ct), S_image_slash)
    \/ StartsWith(Lower(ct), S_audio_slash)
    \/ StartsWith(Lower(ct), S_video_slash)
    \/ Lower(ct) \in ALLOWED_DOC_CT

\* log_error(kind, ticket_id, **extra): the entry appended to ERRORS (the
\* timestamp left out).
LogEntry(kind, ticket_id, extra) ==
    [type |-> kind, ticket_id |-> ticket_id, extra |-> extra]

\* sha256_bytes(content)
sha256_bytes(content) == <<"sha256", content.data>>

\* What the file server answers to a download: 200 with a Content-Type header
\* (<< >>: none), a body and a Content-Length header (-1: none); an HTTP
\* error status; or a failure below HTTP.
Blobs ==
    { [data |-> "tiny", len |-> 1024],
      [data |-> "invoice", len |-> 51200],
      [data |-> "huge", len |-> 3145728] }

NoBlob == [data |-> "", len |-> 0]

DlResponses ==
    { [kind |-> "ok", status |-> 200, ctype |-> ct, body |-> b, clen |-> b.len] :
        ct \in {<< >>, CT_pdf, CT_html}, b \in Blobs }
    \cup { [kind |-> "ok", status |-> 200, ctype |-> CT_pdf,
            body |-> [data |-> "invoice", len |-> 51200], clen |-> -1],
           [kind |-> "http_error", status |-> 404, ctype |-> << >>,
            body |-> NoBlob, clen |-> -1],
           [kind |-> "exception", status |-> 0, ctype |-> << >>,
            body |-> NoBlob, clen |-> -1] }

\* int(rr.headers.get("Content-Length") or 0) or None
ContentLength(resp) ==
    IF resp.clen = -1 \/ resp.clen = 0 THEN NoneInt ELSE resp.clen

\* The (conversation id, attachment) pairs in the order of the two loops of
\* collect_conversation_attachments.
RECURSIVE ConvAttsOf(_)
ConvAttsOf(convs) ==
    IF convs = << >> THEN << >>
    ELSE [i \in DOMAIN Head(convs).attachments |->
             [conv_id |-> Head(convs).id, a |-> Head(convs).attachments[i]]]
         \o ConvAttsOf(Tail(convs))

\* The decimal digits of a small index.
IdxChars(i) ==
    CASE i = 1 -> <<"1">> [] i = 2 -> <<"2">> [] i = 3 -> <<"3">>
      [] i = 4 -> <<"4">> [] OTHER -> <<"9">>

\* The name collect_conversation_attachments gives an attachment.
ConvAttName(a) ==
    safe_filename(OrElse(a.name, OrElse(UrlTail(a.attachment_url), S_attachment)))

\* Nothing happens for one candidate but, perhaps, a ledger entry.
AttSkip(requested, entries) ==
    [req |-> requested, ledger |-> entries, out |-> << >>, write |-> << >>]

\* One pass of the inner loop of collect_conversation_attachments, for the
\* attachment `a` of conversation conv_id, the download answered by resp:
\* whether a request was sent, the ledger entries, the records appended to
\* out and the file written.
collect_conversation_attachment(tid, conv_id, a, c, resp) ==
    LET url == a.attachment_url
        name == ConvAttName(a)
        ct0 == OrElse(a.content_type, CT_octet_stream)
        size_guess == IF a.size = NoneInt \/ a.size = 0 THEN NoneInt ELSE a.size
        max_bytes == c.max_mb * 1024 * 1024
        min_bytes == Max(0, c.min_attach_kb) * 1024
        base_dir == c.download_dir
        ctx == [conv_id |-> conv_id, name |-> name, url |-> url]
        size == IF base_dir THEN resp.body.len
                ELSE IF size_guess # NoneInt THEN size_guess
                ELSE ContentLength(resp)
        ct == IF resp.ctype # << >> THEN resp.ctype ELSE ct0
        stored == base_dir
        rec == [name |-> name, content_type |-> ct, size_bytes |-> size,
                fresh_url |-> url,
                stored_url |-> IF stored THEN <<tid, name>> ELSE << >>,
                stored_at |-> IF stored THEN "utcnow" ELSE NoneStr,
                sha256 |-> IF stored THEN sha256_bytes(resp.body) ELSE << >>,
                conv_id |-> conv_id]
    IN IF url = << >> THEN AttSkip(FALSE, << >>)
       ELSE IF c.attach_signature_block /\ is_signature_like(name, url)
       THEN AttSkip(FALSE, << LogEntry("attachment_skipped_signature_like", tid, ctx) >>)
       ELSE IF ~content_type_allowed(ct0)
       THEN AttSkip(FALSE, << LogEntry("attachment_skipped_content_type", tid,
                                       [ctx |-> ctx, content_type |-> ct0]) >>)
       ELSE IF resp.kind = "http_error"
       THEN AttSkip(TRUE, << LogEntry("conv_attachment_download_failed", tid,
                                      [ctx |-> ctx, http_status |-> resp.status]) >>)
       ELSE IF resp.kind = "exception"
       THEN AttSkip(TRUE, << LogEntry("conv_attachment_download_failed", tid,
                                      [ctx |-> ctx, err |-> "exception"]) >>)
       ELSE IF base_dir /\ size # 0 /\ size > max_bytes
       THEN AttSkip(TRUE, << LogEntry("attachment_skipped_too_large", tid,
                                      [ctx |-> ctx, size |-> size]) >>)
       ELSE IF size # NoneInt /\ size < min_bytes
       THEN AttSkip(TRUE, << LogEntry("attachment_skipped_too_small", tid,
                                      [ctx |-> ctx, size |-> size]) >>)
       ELSE [req |-> TRUE, ledger |-> << >>, out |-> << rec >>,
             write |-> IF stored
                       THEN << [path |-> <<tid, name>>, content |-> resp.body] >>
                       ELSE << >>]

\* INLINE_RE.findall(html): the description of a ticket of the model is the
\* list of the image URLs in its HTML.
InlineUrls(html) == html

\* The name collect_inline_from_description gives the idx-th inline image.
InlineName(i, url) ==
    S_inline_ \o IdxChars(i) \o <<"_">>
    \o safe_filename(OrElse(UrlTail(url), S_inline_ \o IdxChars(i)))

\* One pass of the loop of collect_inline_from_description, for the i-th
\* URL found in the description.
collect_inline(tid, i, url, c, resp) ==
    LET name == InlineName(i, url)
        url_l == Lower(url)
        blocked == \/ \E b \in c.inline_block_hosts : Contains(url_l, b)
                   \/ is_signature_like(name, url)
        base_dir == c.download_dir /\ tid # NoneId /\ tid # 0
        min_bytes == Max(0, c.min_attach_kb) * 1024
        size == resp.body.len
        ctype == resp.ctype
        ctx == [url |-> url, name |-> name]
        rec == [name |-> name,
                content_type |-> IF base_dir THEN ctype ELSE << >>,
                size_bytes |-> IF base_dir THEN size ELSE NoneInt,
                fresh_url |-> url,
                stored_url |-> IF base_dir THEN <<tid, name>> ELSE << >>,
                stored_at |-> IF base_dir THEN "utcnow" ELSE NoneStr,
                sha256 |-> IF base_dir THEN sha256_bytes(resp.body) ELSE << >>,
                conv_id |-> NoneId]
    IN IF blocked
       THEN AttSkip(FALSE, << LogEntry("inline_blocked_by_pattern", tid, ctx) >>)
       ELSE IF ~base_dir
       THEN [req |-> FALSE, ledger |-> << >>, out |-> << rec >>, write |-> << >>]
       ELSE IF resp.kind = "http_error"
       THEN AttSkip(TRUE, << LogEntry("inline_download_failed", tid,
                                      [ctx |-> ctx, http_status |-> resp.status]) >>)
       ELSE IF resp.kind = "exception"
       THEN AttSkip(TRUE, << LogEntry("inline_download_failed", tid,
                                      [ctx |-> ctx, err |-> "exception"]) >>)
       ELSE IF size < min_bytes
       THEN AttSkip(TRUE, << LogEntry("inline_skipped_too_small", tid,
                                      [ctx |-> ctx, size |-> size]) >>)
       ELSE IF ~content_type_allowed(ctype)
       THEN AttSkip(TRUE, << LogEntry("inline_skipped_content_type", tid,
                                      [ctx |-> ctx, content_type |-> ctype]) >>)
       ELSE [req |-> TRUE, ledger |-> << >>, out |-> << rec >>,
             write |-> << [path |-> <<tid, name>>, content |-> resp.body] >>]

\* A save_bytes that writes nothing.
SaveAll_Nothing(fs, writes) == fs

\* The files after the writes of one collector pass (save_bytes).
SaveAll(fs, writes) ==
    IF writes = << >> THEN fs
    ELSE DictSet(fs, writes[1].path, writes[1].content)

(***************************************************************************)
(* Numbers of the payloads that may not fit 32 bits.  A Python int is      *)
(* unbounded: the integer q * 2^31 + r, 0 <= r < 2^31, is the value of     *)
(* kind "int" with these q and r; a str that int() parses carries the      *)
(* number it spells (kind "digits"); the other values int() raises on are  *)
(* a str that spells no number (kind "text") and None.                     *)
(***************************************************************************)
INT32_MAX == 2147483647

INT32_MIN == (0 - INT32_MAX) - 1

PyInt(q, r) == [kind |-> "int", q |-> q, r |-> r]

PyDigits(q, r) == [kind |-> "digits", q |-> q, r |-> r]

PyText == [kind |-> "text", q |-> 0, r |-> 0]

PyNone == [kind |-> "none", q |-> 0, r |-> 0]

\* The value of a number that fits 32 bits.
Narrow(n) == IF n < 0 THEN PyInt(-1, (n + INT32_MAX) + 1) ELSE PyInt(0, n)

\* a <= b between two values of kind "int"
IntLe(a, b) == a.q < b.q \/ (a.q = b.q /\ a.r <= b.r)

\* int(v): the int, or the exception of a value that is no number.
int(v) ==
    IF v.kind \in {"int", "digits"} THEN [ok |-> TRUE, n |-> PyInt(v.q, v.r)]
    ELSE [ok |-> FALSE, n |-> PyNone]

\* int32_or_none
int32_or_none(v) ==
    LET c == int(v)
    IN IF c.ok /\ IntLe(Narrow(INT32_MIN), c.n) /\ IntLe(c.n, Narrow(INT32_MAX))
       THEN c.n ELSE PyNone

\* to_int_or_none
to_int_or_none(v) == int(v).n

\* The custom-field keys cf_pick tries for the alias "numero", in its order.
NumeroKeys == <<"numero", "cf_numero", "nmero", "cf_nmero">>

\* cf_pick(cf, "numero"), cf a dict from keys to values.
cf_pick_numero(cf) ==
    IF \E i \in DOMAIN NumeroKeys : NumeroKeys[i] \in DOMAIN cf
    THEN cf[NumeroKeys[CHOOSE i \in DOMAIN NumeroKeys :
                         /\ NumeroKeys[i] \in DOMAIN cf
                         /\ \A j \in 1..(i - 1) : NumeroKeys[j] \notin DOMAIN cf]]
    ELSE PyNone

(***************************************************************************)
(* What Freshdesk holds: fd_get_ticket, fd_get_group, fd_get_agent,        *)
(* fd_get_contact and fd_get_company answer from here.  An id of 0 and an  *)
(* empty text stand for a field that is null or missing.                   *)
(***************************************************************************)
FdAttachment(name, url, ct, size) ==
    [name |-> name, attachment_url |-> url, content_type |-> ct, size |-> size]

PlainTicket(tid) ==
    [id |-> tid, subject |-> "plain", group_id |-> 0, responder_id |-> 0,
     requester_id |-> 0, conversations |-> << >>, description |-> << >>]

NoTicket == PlainTicket(0)

\* The ids of the long run: more tickets than one batch holds.
MaxPlain == 201

PlainIds == [i \in 1..MaxPlain |-> 2000 + i]

FdTicket(tid) ==
    CASE tid = 1001 ->
           [id |-> 1001, subject |-> "invoice", group_id |-> 31,
            responder_id |-> 41, requester_id |-> 11,
            conversations |->
              << [id |-> 501,
                  attachments |->
                    << FdAttachment(S_logo_png, UrlOf(S_logo_png), CT_png, 2048),
                       FdAttachment(S_invoice_pdf, UrlOf(S_invoice_pdf),
                                    CT_pdf, 51200) >>] >>,
            description |-> << >>]
      [] tid = 1002 ->
           [id |-> 1002, subject |-> "setup", group_id |-> 0,
            responder_id |-> 0, requester_id |-> 12,
            conversations |->
              << [id |-> 502,
                  attachments |->
                    << FdAttachment(S_setup_exe, UrlOf(S_setup_exe), CT_exe, 1024),
                       FdAttachment(<< >>, << >>, CT_pdf, 1024) >>],
                 [id |-> 0,
                  attachments |->
                    << FdAttachment(S_photo_jpg, UrlOf(S_photo_jpg),
                                    CT_jpeg, NoneInt) >>] >>,
            description |->
              << UrlOf(S_image001_png), UrlBase \o S_squarespace_pic,
                 UrlOf(S_banner_png) >>]
      [] tid = 1003 ->
           [id |-> 1003, subject |-> "signed", group_id |-> 0,
            responder_id |-> 0, requester_id |-> 0,
            conversations |->
              << [id |-> 503,
                  attachments |->
                    << FdAttachment(<< >>, UrlBase \o S_signature_dir \o S_photo_jpg,
                                    CT_jpeg, 51200),
                       FdAttachment(S_a_b_txt, UrlOf(S_a_b_txt), << >>, 0) >>] >>,
            description |-> << >>]
      [] tid = 1004 ->
           [id |-> 1004, subject |-> "report", group_id |-> 0,
            responder_id |-> 0, requester_id |-> 0,
            conversations |->
              << [id |-> 504,
                  attachments |->
                    << FdAttachment(S_report_pdf, UrlOf(S_report_pdf),
                                    CT_pdf, 3145728),
                       FdAttachment(S_invoice_pdf, UrlOf(S_invoice_pdf),
                                    CT_pdf, 51200) >>],
                 [id |-> 505,
                  attachments |->
                    << FdAttachment(S_invoice_pdf, UrlOf(S_invoice_pdf),
                                    CT_pdf, 51200) >>] >>,
            description |-> << >>]
      [] tid = 1005 ->
           [id |-> 1005, subject |-> "long names", group_id |-> 0,
            responder_id |-> 0, requester_id |-> 0,
            conversations |->
              << [id |-> 506,
                  attachments |->
                    << FdAttachment(S_long_name, UrlOf(S_invoice_pdf),
                                    CT_pdf, 51200) >>] >>,
            description |-> << UrlBase \o S_long_tail >>]
      [] tid = 1006 ->
           [id |-> 1006, subject |-> "two photos", group_id |-> 0,
            responder_id |-> 0, requester_id |-> 0,
            conversations |->
              << [id |-> 507,
                  attachments |->
                    << FdAttachment(S_photo_jpg,
                                    UrlBase \o <<"5", "0", "7", "/">> \o S_photo_jpg,
                                    CT_jpeg, 51200) >>],
                 [id |-> 508,
                  attachments |->
                    << FdAttachment(S_photo_jpg,
                                    UrlBase \o <<"5", "0", "8", "/">> \o S_photo_jpg,
                                    CT_jpeg, 51200) >>] >>,
            description |-> << >>]
      [] OTHER -> PlainTicket(tid)

FdGroup(g_id) == [id |-> g_id, name |-> "Support"]

FdAgent(a_id) == [id |-> a_id, email |-> "ann@fd", name |-> "Ann"]

FdContact(r_id) ==
    IF r_id = 11
    THEN [id |-> 11, email |-> "a@b.com", name |-> "Al", company_id |-> 21]
    ELSE [id |-> r_id, email |-> "c@d.com", name |-> "Cy", company_id |-> 0]

FdCompany(comp_id) ==
    [id |-> Narrow(comp_id), name |-> "Acme",
     custom_fields |-> [k \in {"numero"} |-> Narrow(120)]]

NoCompany == [id |-> Narrow(0), name |-> NoneStr, custom_fields |-> << >>]

(***************************************************************************)
(* Rows and tables.                                                        *)
(***************************************************************************)
\* json.dumps(obj)
json_dumps(obj) == <<"json", obj>>

\* build_ticket_row
build_ticket_row(t) ==
    [freshdesk_ticket_id |-> t.id, subject |-> t.subject,
     description_html |-> t.description, group_id |-> t.group_id,
     requester_id |-> t.requester_id, responder_id |-> t.responder_id,
     raw_json |-> json_dumps(t), octa_ticket_id |-> NoneStr]

\* build_group_row
build_group_row(g) ==
    [freshdesk_group_id |-> g.id, name |-> g.name, raw_json |-> json_dumps(g),
     octa_group_id |-> NoneStr]

\* build_agent_row
build_agent_row(a) ==
    [freshdesk_id |-> a.id, email |-> a.email, name |-> a.name,
     raw_json |-> json_dumps(a), octa_agent_id |-> NoneStr]

\* build_company_row
build_company_row(c) ==
    [id |-> c.id, fresh_company_id |-> int32_or_none(c.id), name |-> c.name,
     raw_json |-> json_dumps(c),
     numero |-> to_int_or_none(cf_pick_numero(c.custom_fields)),
     octa_company_id |-> NoneStr]

\* build_contact_row
build_contact_row(c) ==
    [freshdesk_id |-> c.id, email |-> c.email, name |-> c.name,
     company_id |-> c.company_id, raw_json |-> json_dumps(c),
     octa_contact_id |-> NoneStr]

\* build_message_row
build_message_row(conv, ticket_id) ==
    [freshdesk_ticket_id |-> ticket_id, freshdesk_conv_id |-> conv.id]

\* The row with the conversation id itself in the place of the message id.
AttachmentRow_ConvId(ticket_id, a, c2m) ==
    [freshdesk_ticket_id |-> ticket_id,
     message_id |-> IF a.conv_id # NoneId /\ a.conv_id # 0
                    THEN a.conv_id ELSE NoneId,
     name |-> a.name, content_type |-> a.content_type,
     size_bytes |-> a.size_bytes, fresh_url |-> a.fresh_url,
     stored_url |-> a.stored_url, stored_at |-> a.stored_at,
     sha256 |-> a.sha256]

\* The row persist_attachments makes of a collected attachment.
AttachmentRow(ticket_id, a, c2m) ==
    [freshdesk_ticket_id |-> ticket_id,
     message_id |-> IF a.conv_id # NoneId /\ a.conv_id # 0
                       /\ a.conv_id \in DOMAIN c2m
                    THEN c2m[a.conv_id] ELSE NoneId,
     name |-> a.name, content_type |-> a.content_type,
     size_bytes |-> a.size_bytes, fresh_url |-> a.fresh_url,
     stored_url |-> a.stored_url, stored_at |-> a.stored_at,
     sha256 |-> a.sha256]

Tables ==
    {"tickets", "b_groups", "agents", "companies", "contacts", "messages",
     "attachments"}

EmptyDb == [t \in Tables |-> << >>]

\* The unique key of each table.
UniqueKey(tbl) ==
    CASE tbl = "tickets" -> {"freshdesk_ticket_id"}
      [] tbl = "b_groups" -> {"freshdesk_group_id"}
      [] tbl = "agents" -> {"freshdesk_id"}
      [] tbl = "companies" -> {"id"}
      [] tbl = "contacts" -> {"freshdesk_id"}
      [] tbl = "messages" -> {"freshdesk_ticket_id", "freshdesk_conv_id"}
      [] OTHER -> {"freshdesk_ticket_id", "name"}

\* The columns the ON DUPLICATE KEY UPDATE clause of each statement assigns.
UpdateColumns(tbl) ==
    CASE tbl = "tickets" ->
           {"subject", "description_html", "group_id", "requester_id",
            "responder_id", "raw_json"}
      [] tbl = "b_groups" -> {"name", "raw_json", "octa_group_id"}
      [] tbl = "agents" -> {"email", "name", "raw_json", "octa_agent_id"}
      [] tbl = "companies" ->
           {"fresh_company_id", "name", "raw_json", "numero", "octa_company_id"}
      [] tbl = "contacts" ->
           {"email", "name", "company_id", "raw_json", "octa_contact_id"}
      [] tbl = "messages" -> {"freshdesk_conv_id"}
      [] OTHER ->
           {"content_type", "size_bytes", "fresh_url", "stored_url",
            "stored_at", "sha256"}

\* The values of `row` in the unique key of tbl.
KeyOf(tbl, row) == [k \in UniqueKey(tbl) |-> row[k]]

\* The rows of `rows` that collide with `row` on the unique key of tbl.
Conflicts(tbl, rows, row) ==
    {i \in DOMAIN rows : KeyOf(tbl, rows[i]) = KeyOf(tbl, row)}

\* INSERT without the ON DUPLICATE KEY UPDATE clause and without the key.
Upsert_InsertOnly(tbl, rows, row) == Append(rows, row)

\* INSERT ... ON DUPLICATE KEY UPDATE of one row.
Upsert(tbl, rows, row) ==
    LET hits == Conflicts(tbl, rows, row)
    IN IF hits = {} THEN Append(rows, row)
       ELSE [i \in DOMAIN rows |->
               IF i \in hits
               THEN [c \in DOMAIN rows[i] |->
                       IF c \in UpdateColumns(tbl) THEN row[c] ELSE rows[i][c]]
               ELSE rows[i]]

\* cur.executemany(sql, rows)
RECURSIVE UpsertAll(_, _, _)
UpsertAll(tbl, rows, new) ==
    IF new = << >> THEN rows
    ELSE UpsertAll(tbl, Upsert(tbl, rows, Head(new)), Tail(new))

\* The id MESSAGE_UPSERT_SQL leaves in lastrowid: the id of the row it
\* updated (id = LAST_INSERT_ID(id)) or the auto-increment id of the new one.
MessageId(rows, row) ==
    IF Conflicts("messages", rows, row) = {} THEN Len(rows) + 1
    ELSE rows[CHOOSE i \in Conflicts("messages", rows, row) : TRUE].id

\* The messages row as stored: the row with its id column.
MessageStored(rows, row) ==
    [id |-> MessageId(rows, row),
     freshdesk_ticket_id |-> row.freshdesk_ticket_id,
     freshdesk_conv_id |-> row.freshdesk_conv_id]

\* A store is the tables and the log of the writes committed in this run.
\* MySQL.exec_many when the transaction commits.
exec_many(st, tbl, rows) ==
    IF rows = << >> THEN st
    ELSE [db |-> [st.db EXCEPT ![tbl] = UpsertAll(tbl, @, rows)],
          log |-> Append(st.log, [table |-> tbl, rows |-> rows])]

\* persist_messages_return_map over msg_rows[i..n], every
\* exec_one_returning_id committing.
RECURSIVE persist_messages_return_map(_, _, _, _, _)
persist_messages_return_map(st, c2m, msg_rows, i, n) ==
    IF i > n THEN [st |-> st, conv_to_msg |-> c2m]
    ELSE LET r == msg_rows[i]
             stored == MessageStored(st.db["messages"], r)
             st2 == [db |-> [st.db EXCEPT !["messages"] =
                                Upsert("messages", @, stored)],
                     log |-> Append(st.log,
                                    [table |-> "messages", rows |-> <<stored>>])]
         IN persist_messages_return_map(
                st2, DictSet(c2m, r.freshdesk_conv_id, stored.id),
                msg_rows, i + 1, n)

(***************************************************************************)
(* sync_tickets.                                                           *)
(***************************************************************************)
BatchSize == 200

MaxSyncRuns == 2

NoDl == [kind |-> "none", url |-> << >>, resp |-> [kind |-> "none"]]

Dedup_KeepAll(ids) == ids

\* list(dict.fromkeys(ids)): the first occurrence of each id, in order.
Dedup(ids) ==
    LET keep == {i \in DOMAIN ids : \A j \in 1..(i - 1) : ids[j] # ids[i]}
    IN [k \in 1..Cardinality(keep) |->
          ids[CHOOSE i \in keep : Cardinality({j \in keep : j <= i}) = k]]

\* What a GET of the Freshdesk API meets: an answer with a status and perhaps a Retry-After
\* header, or a requests exception raised before any answer.
FdHttp(status, retry_after) ==
    [kind |-> "http", status |-> status, retry_after |-> retry_after]

FdNetworkFailure == [kind |-> "exception", status |-> 0, retry_after |-> << >>]

NoFetchResp == [kind |-> "none", status |-> 0, retry_after |-> << >>]

\* r.raise_for_status() raises an HTTPError, a requests.RequestException.
RaisesForStatus(status) == status >= 400 /\ status < 600

NoFetch == [tid |-> 0, requests |-> 0, resp |-> NoFetchResp]

\* What requests.get meets for GET /tickets/{tid}.
FdTicketAnswers(tid) ==
    IF world.fd_fails /\ tid \in {1001, 1002, 1003}
      THEN { FdHttp(200, << >>), FdHttp(429, << >>), FdHttp(500, << >>),
             FdHttp(404, << >>), FdNetworkFailure }
      ELSE { FdHttp(200, << >>) }

\* fd_get with an answer that is taken for a success whatever it is.
fd_get_NeverRaises(r) == [ok |-> TRUE, requests |-> 1]

\* fd_get: one request, raise_for_status; no second request is ever sent.
fd_get(r) ==
    [ok |-> r.kind = "http" /\ ~RaisesForStatus(r.status), requests |-> 1]

\* str(e) of what fd_get raised.
FdErrText(r) ==
    IF r.kind = "exception" THEN "ConnectionError"
    ELSE IF r.status = 429 THEN "429 Client Error"
    ELSE IF r.status = 404 THEN "404 Client Error"
    ELSE "500 Server Error"

\* Whether a commit may fail, and whether Freshdesk may fail to answer.
DbOutcomes == IF world.db_fails THEN BOOLEAN ELSE {TRUE}

FdOutcomes(tid) ==
    IF world.fd_fails /\ tid \in {1001, 1002, 1003} THEN BOOLEAN ELSE {TRUE}

Store == [db |-> db, log |-> dbLog]

\* The loop moves to the next id, or leaves for the final flush.
SyncNextTicket ==
    /\ idx' = idx + 1
    /\ pc' = IF idx + 1 > Len(found_ids) THEN "final" ELSE "fetch"

\* One persist_* call: the transaction commits and the run goes on to
\* nextpc, or exec_many rolls back and re-raises, which nothing catches.
persist(tbl, rows, dbok, nextpc) ==
    IF rows = << >>
    THEN /\ dbok
         /\ pc' = nextpc
         /\ UNCHANGED <<db, dbLog>>
    ELSE IF dbok
    THEN /\ pc' = nextpc
         /\ db' = exec_many(Store, tbl, rows).db
         /\ dbLog' = exec_many(Store, tbl, rows).log
    ELSE /\ pc' = "aborted"
         /\ UNCHANGED <<db, dbLog>>

\* Where the attachment part of the loop body stands once position i of the
\* conversation attachments is reached ...
AfterConv(t, c, i) ==
    IF i <= Len(ConvAttsOf(t.conversations)) THEN [pc |-> "conv_att", i |-> i]
    ELSE IF c.inline_scrape /\ InlineUrls(t.description) # << >>
    THEN [pc |-> "inline_att", i |-> 1]
    ELSE [pc |-> "persist_att", i |-> 1]

\* ... and once position i of the inline URLs is reached.
AfterInline(t, i) ==
    IF i <= Len(InlineUrls(t.description)) THEN [pc |-> "inline_att", i |-> i]
    ELSE [pc |-> "persist_att", i |-> 1]

\* fd_get_ticket, build_ticket_row and the flush of batch_rows.
SyncFetchTicket ==
    /\ pc = "fetch"
    /\ \E r \in FdTicketAnswers(found_ids[idx]), dbok \in DbOutcomes :
        LET tid == found_ids[idx]
            got == fd_get(r)
            fetched == got.ok
            t == FdTicket(tid)
            rows == Append(batch_rows, build_ticket_row(t))
            flush == IF cfg.include_inline \/ cfg.inline_scrape THEN TRUE
                     ELSE Len(rows) >= BatchSize
        IN /\ lastFetch' = [tid |-> tid, requests |-> got.requests, resp |-> r]
           /\ IF ~fetched
                THEN /\ dbok
                     /\ ERRORS' = Append(ERRORS,
                                         LogEntry("ticket_fetch_failed", tid,
                                                  [err |-> FdErrText(r)]))
                     /\ SyncNextTicket
                     /\ UNCHANGED <<full, batch_rows, db, dbLog>>
                ELSE /\ full' = t
                     /\ IF flush
                          THEN /\ persist("tickets", rows, dbok, "group")
                               /\ batch_rows' = IF dbok THEN << >> ELSE rows
                          ELSE /\ dbok
                               /\ batch_rows' = rows
                               /\ pc' = "group"
                               /\ UNCHANGED <<db, dbLog>>
                     /\ UNCHANGED <<idx, ERRORS>>
    /\ UNCHANGED <<cfg, found_ids, conv_to_msg, atts, attI, files, dlReqs,
                   lastDl, runsDone, world>>
    /\ UNCHANGED <<octaVars, corrVars, sideVars, fdVars, listVars>>

\* The b_groups part of the loop body.
SyncGroup ==
    /\ pc = "group"
    /\ \E got \in FdOutcomes(full.id), dbok \in DbOutcomes :
        /\ (full.group_id = 0 => got)
        /\ persist("b_groups",
                   IF full.group_id # 0 /\ got
                   THEN << build_group_row(FdGroup(full.group_id)) >> ELSE << >>,
                   dbok, "agent")
    /\ UNCHANGED <<cfg, found_ids, idx, full, batch_rows, conv_to_msg, atts,
                   attI, ERRORS, files, dlReqs, lastDl, lastFetch,
                   runsDone, world>>
    /\ UNCHANGED <<octaVars, corrVars, sideVars, fdVars, listVars>>

\* The agents part of the loop body.
SyncAgent ==
    /\ pc = "agent"
    /\ \E got \in FdOutcomes(full.id), dbok \in DbOutcomes :
        /\ (full.responder_id = 0 => got)
        /\ persist("agents",
                   IF full.responder_id # 0 /\ got
                   THEN << build_agent_row(FdAgent(full.responder_id)) >>
                   ELSE << >>,
                   dbok, "contact")
    /\ UNCHANGED <<cfg, found_ids, idx, full, batch_rows, conv_to_msg, atts,
                   attI, ERRORS, files, dlReqs, lastDl, lastFetch,
                   runsDone, world>>
    /\ UNCHANGED <<octaVars, corrVars, sideVars, fdVars, listVars>>

OctaNotFound_Silent(tid, no_contact, no_org, ct, comp_json) == << >>

\* The entries sync_tickets appends when the lookups of a ticket end without
\* a contact (no_contact) or without an organization (no_org).
OctaNotFound(tid, no_contact, no_org, ct, comp_json) ==
    (IF no_contact
     THEN << LogEntry("octa_contact_not_found", tid,
                      [contact_fresh_id |-> ct.id, email |-> ct.email]) >>
     ELSE << >>)
    \o (IF no_org
        THEN << LogEntry("octa_org_not_found", tid,
                         [company_fresh_id |-> comp_json.id,
                          company_name |-> comp_json.name]) >>
        ELSE << >>)

\* The contacts + companies part of the loop body, Octadesk lookup included.
\* got / gotc: fd_get_contact / fd_get_company return a payload; rc answers
\* the contact lookups and ro the organization lookups; fail names the
\* persist_* call whose commit fails.  comp_json.get("id") is handed to the
\* organization lookup as the number the company was asked for by.
SyncContact ==
    /\ pc = "contact"
    /\ \E got \in FdOutcomes(full.id), gotc \in FdOutcomes(full.id),
          rc \in world.octa_contact, ro \in world.octa_org,
          fail \in IF world.db_fails THEN {"none", "companies", "contacts"}
                   ELSE {"none"} :
        LET r_id == full.requester_id
            ct == FdContact(r_id)
            comp_json == IF ct.company_id # 0 /\ gotc
                         THEN FdCompany(ct.company_id) ELSE NoCompany
            has_comp == comp_json # NoCompany
            lookup == cfg.octa_lookup
            oc == octa_find_contact(octaContactByEmail, octaContactByCf,
                                    ct.email, ct.id, octa_contact_cf_key, rc, rc)
            octa_contact_id == IF lookup /\ oc.ret # NoneItem THEN oc.ret.id
                               ELSE NoneStr
            from_ct == IF lookup /\ oc.ret # NoneItem THEN oc.ret.organization
                       ELSE NoneStr
            try_org == lookup /\ from_ct = NoneStr /\ has_comp
            oo == octa_find_organization(octaOrgByName, octaOrgByCf,
                                         comp_json.name, ct.company_id,
                                         octa_org_cf_key, ro, ro)
            octa_company_id == IF from_ct # NoneStr THEN from_ct
                               ELSE IF try_org /\ oo.ret # NoneItem THEN oo.ret.id
                               ELSE NoneStr
            ledger == OctaNotFound(full.id, lookup /\ oc.ret = NoneItem,
                                   try_org /\ oo.ret = NoneItem, ct, comp_json)
            comp_row == [build_company_row(comp_json)
                            EXCEPT !.octa_company_id = octa_company_id]
            ct_row == [build_contact_row(ct)
                            EXCEPT !.octa_contact_id = octa_contact_id]
            st1 == IF has_comp /\ fail # "companies"
                   THEN exec_many(Store, "companies", <<comp_row>>) ELSE Store
            st2 == IF fail = "none"
                   THEN exec_many(st1, "contacts", <<ct_row>>) ELSE st1
        IN IF r_id = 0
           THEN /\ got /\ gotc /\ fail = "none"
                /\ rc = CHOOSE r \in world.octa_contact : TRUE
                /\ ro = CHOOSE r \in world.octa_org : TRUE
                /\ pc' = "messages"
                /\ UNCHANGED <<ERRORS, db, dbLog, octaContactByEmail,
                               octaContactByCf, octaOrgByName, octaOrgByCf,
                               octaReqs>>
           ELSE IF ~got
           THEN /\ gotc /\ fail = "none"
                /\ rc = CHOOSE r \in world.octa_contact : TRUE
                /\ ro = CHOOSE r \in world.octa_org : TRUE
                /\ ERRORS' = Append(ERRORS, LogEntry("contact_not_found", full.id,
                                                     [contact_id |-> r_id]))
                /\ pc' = "messages"
                /\ UNCHANGED <<db, dbLog, octaContactByEmail, octaContactByCf,
                               octaOrgByName, octaOrgByCf, octaReqs>>
           ELSE /\ (ct.company_id = 0 => gotc)
                /\ (fail = "companies" => has_comp)
                /\ (~lookup => rc = CHOOSE r \in world.octa_contact : TRUE)
                /\ (~try_org => ro = CHOOSE r \in world.octa_org : TRUE)
                /\ ERRORS' = ERRORS \o ledger
                /\ octaContactByEmail' = IF lookup THEN oc.byEmail
                                         ELSE octaContactByEmail
                /\ octaContactByCf' = IF lookup THEN oc.byCf ELSE octaContactByCf
                /\ octaOrgByName' = IF try_org THEN oo.byName ELSE octaOrgByName
                /\ octaOrgByCf' = IF try_org THEN oo.byCf ELSE octaOrgByCf
                /\ octaReqs' = CountReqs(octaReqs,
                                         (IF lookup THEN oc.reqs ELSE << >>)
                                         \o (IF try_org THEN oo.reqs ELSE << >>))
                /\ db' = st2.db
                /\ dbLog' = st2.log
                /\ pc' = IF fail = "none" THEN "messages" ELSE "aborted"
    /\ UNCHANGED <<cfg, found_ids, idx, full, batch_rows, conv_to_msg, atts,
                   attI, files, dlReqs, lastDl, lastFetch,
                   runsDone, world>>
    /\ UNCHANGED <<octa_contact_cf_key, octa_org_cf_key, octaCalls, octaLast,
                   octaInvalidSeen, octaResolved, corrVars, sideVars, fdVars, listVars>>

\* The conversations of a ticket that carry an id.
RECURSIVE MsgRows(_, _)
MsgRows(convs, tid) ==
    IF convs = << >> THEN << >>
    ELSE (IF Head(convs).id # 0 THEN << build_message_row(Head(convs), tid) >>
          ELSE << >>)
         \o MsgRows(Tail(convs), tid)

\* The messages part of the loop body: the first `good` rows commit, the
\* next one, if there is one, fails; then the branch into the attachments.
SyncMessages ==
    /\ pc = "messages"
    /\ LET tid == found_ids[idx]
           msg_rows == MsgRows(full.conversations, tid)
       IN \E good \in 0..Len(msg_rows) :
            LET res == persist_messages_return_map(Store, EmptyDict, msg_rows,
                                                   1, good)
                start == AfterConv(full, cfg, 1)
            IN /\ (~world.db_fails => good = Len(msg_rows))
               /\ db' = res.st.db
               /\ dbLog' = res.st.log
               /\ IF good < Len(msg_rows)
                  THEN /\ pc' = "aborted"
                       /\ UNCHANGED <<idx, conv_to_msg, atts, attI>>
                  ELSE /\ conv_to_msg' = res.conv_to_msg
                       /\ IF cfg.include_inline \/ cfg.inline_scrape
                          THEN /\ atts' = << >>
                               /\ attI' = start.i
                               /\ pc' = start.pc
                               /\ idx' = idx
                          ELSE /\ SyncNextTicket
                               /\ UNCHANGED <<atts, attI>>
    /\ UNCHANGED <<cfg, found_ids, full, batch_rows, ERRORS, files, dlReqs,
                   lastDl, lastFetch,
                   runsDone, world>>
    /\ UNCHANGED <<octaVars, corrVars, sideVars, fdVars, listVars>>

\* What one collector pass leaves behind.
CollectorEffect(res, kind, url, resp) ==
    /\ atts' = atts \o res.out
    /\ ERRORS' = ERRORS \o res.ledger
    /\ files' = SaveAll(files, res.write)
    /\ dlReqs' = IF res.req THEN Append(dlReqs, url) ELSE dlReqs
    /\ lastDl' = IF res.req THEN [kind |-> kind, url |-> url, resp |-> resp]
                 ELSE NoDl

\* collect_conversation_attachments, one attachment at a time.
CollectConvAttachment ==
    /\ pc = "conv_att"
    /\ \E resp \in world.dl :
        LET ca == ConvAttsOf(full.conversations)[attI]
            res == collect_conversation_attachment(full.id, ca.conv_id, ca.a,
                                                   cfg, resp)
        IN CollectorEffect(res, "conv", ca.a.attachment_url, resp)
    /\ attI' = AfterConv(full, cfg, attI + 1).i
    /\ pc' = AfterConv(full, cfg, attI + 1).pc
    /\ UNCHANGED <<cfg, found_ids, idx, full, batch_rows, conv_to_msg, db,
                   dbLog, lastFetch, runsDone, world>>
    /\ UNCHANGED <<octaVars, corrVars, sideVars, fdVars, listVars>>

\* collect_inline_from_description, one URL at a time.
CollectInline ==
    /\ pc = "inline_att"
    /\ \E resp \in world.dl :
        LET url == InlineUrls(full.description)[attI]
            res == collect_inline(found_ids[idx], attI, url, cfg, resp)
        IN CollectorEffect(res, "inline", url, resp)
    /\ attI' = AfterInline(full, attI + 1).i
    /\ pc' = AfterInline(full, attI + 1).pc
    /\ UNCHANGED <<cfg, found_ids, idx, full, batch_rows, conv_to_msg, db,
                   dbLog, lastFetch, runsDone, world>>
    /\ UNCHANGED <<octaVars, corrVars, sideVars, fdVars, listVars>>

\* persist_attachments for the current ticket, then the next ticket.
SyncPersistAttachments ==
    /\ pc = "persist_att"
    /\ \E dbok \in DbOutcomes :
        /\ persist("attachments",
                   [i \in DOMAIN atts |->
                       AttachmentRow(found_ids[idx], atts[i], conv_to_msg)],
                   dbok,
                   IF idx + 1 > Len(found_ids) THEN "final" ELSE "fetch")
        /\ idx' = IF dbok THEN idx + 1 ELSE idx
    /\ UNCHANGED <<cfg, found_ids, full, batch_rows, conv_to_msg, atts, attI,
                   ERRORS, files, dlReqs, lastDl, lastFetch,
                   runsDone, world>>
    /\ UNCHANGED <<octaVars, corrVars, sideVars, fdVars, listVars>>

\* The end of the run without the flush after the loop.
SyncFinalFlush_NoFlush ==
    /\ pc = "final"
    /\ pc' = "done"
    /\ UNCHANGED <<cfg, found_ids, idx, full, batch_rows, conv_to_msg, atts,
                   attI, ERRORS, files, dlReqs, lastDl, lastFetch,
                   runsDone, world, db, dbLog>>
    /\ UNCHANGED <<octaVars, corrVars, sideVars, fdVars, listVars>>

\* The flush after the loop.
SyncFinalFlush ==
    /\ pc = "final"
    /\ \E dbok \in DbOutcomes : persist("tickets", batch_rows, dbok, "done")
    /\ UNCHANGED <<cfg, found_ids, idx, full, batch_rows, conv_to_msg, atts,
                   attI, ERRORS, files, dlReqs, lastDl, lastFetch,
                   runsDone, world>>
    /\ UNCHANGED <<octaVars, corrVars, sideVars, fdVars, listVars>>

\* The script is started again with the same arguments: a new process, the
\* same database and the same download directory.
SyncRestart ==
    /\ pc \in {"done", "aborted"}
    /\ Len(runsDone) + 1 < MaxSyncRuns
    /\ runsDone' = Append(runsDone, [end |-> pc, dls |-> Len(dlReqs)])
    /\ idx' = 1
    /\ pc' = "fetch"
    /\ full' = NoTicket
    /\ batch_rows' = << >>
    /\ conv_to_msg' = EmptyDict
    /\ atts' = << >>
    /\ attI' = 1
    /\ ERRORS' = << >>
    /\ dbLog' = << >>
    /\ dlReqs' = << >>
    /\ lastDl' = NoDl
    /\ lastFetch' = NoFetch
    /\ octaContactByEmail' = EmptyDict
    /\ octaContactByCf' = EmptyDict
    /\ octaOrgByName' = EmptyDict
    /\ octaOrgByCf' = EmptyDict
    /\ octaReqs' = [k \in OctaKeys |-> 0]
    /\ UNCHANGED <<cfg, found_ids, db, files, world>>
    /\ UNCHANGED <<octa_contact_cf_key, octa_org_cf_key, octaCalls, octaLast,
                   octaInvalidSeen, octaResolved, corrVars, sideVars, fdVars, listVars>>

\* The state sync_tickets starts from, for the ids and parameters given.
SyncStart(ids, c, w) ==
    /\ cfg = c
    /\ found_ids = Dedup(ids)
    /\ idx = 1
    /\ pc = "fetch"
    /\ full = NoTicket
    /\ batch_rows = << >>
    /\ conv_to_msg = EmptyDict
    /\ atts = << >>
    /\ attI = 1
    /\ ERRORS = << >>
    /\ db = EmptyDb
    /\ dbLog = << >>
    /\ files = EmptyDict
    /\ dlReqs = << >>
    /\ lastDl = NoDl
    /\ lastFetch = NoFetch
    /\ runsDone = << >>
    /\ world = w

\* The parameters of sync_tickets.
SyncConfig(inl, scrape, dir, lookup, sig, maxmb, minkb) ==
    [include_inline |-> inl, inline_scrape |-> scrape, download_dir |-> dir,
     octa_lookup |-> lookup, attach_signature_block |-> sig, max_mb |-> maxmb,
     min_attach_kb |-> minkb, inline_block_hosts |-> DEFAULT_INLINE_BLOCKLIST]

\* Runs in which nothing fails and Octadesk knows nobody ...
CalmWorld ==
    [dl |-> { r \in DlResponses :
                r.kind = "ok" /\ r.ctype = CT_pdf /\ r.clen = 51200 },
     db_fails |-> FALSE, fd_fails |-> FALSE,
     octa_contact |-> { [kind |-> "empty", item |-> NoneItem, body |-> ""] },
     octa_org |-> { [kind |-> "empty", item |-> NoneItem, body |-> ""] }]

\* ... and runs in which one of the services may fail or answer otherwise:
\* the database, Freshdesk, the file server, Octadesk.
SyncWorlds ==
    { [CalmWorld EXCEPT !.db_fails = TRUE],
      [CalmWorld EXCEPT !.fd_fails = TRUE],
      [CalmWorld EXCEPT !.dl = @ \cup {r \in DlResponses : r.kind = "http_error"}],
      [CalmWorld EXCEPT
         !.octa_contact = { r \in OctaResp(OctaContactItems) : r.body = "" },
         !.octa_org = { r \in OctaResp(OctaOrgItems) :
                          r.kind = "empty" \/ (r.kind = "item" /\ r.item.id = "oo2") }] }

\* Short id lists under every mode, and the long list under the buffered
\* mode.
SyncInit ==
    \/ \E ids \in {<<1001>>, <<1002, 2001, 1002>>},
          inl \in BOOLEAN, scrape \in BOOLEAN, dir \in BOOLEAN,
          w \in SyncWorlds :
         SyncStart(ids,
                   SyncConfig(inl, scrape, dir, w.octa_contact # CalmWorld.octa_contact,
                              TRUE, 15, 5),
                   w)
    \/ SyncStart(PlainIds, SyncConfig(FALSE, FALSE, FALSE, FALSE, TRUE, 15, 5),
                 [CalmWorld EXCEPT !.db_fails = TRUE])

\* Runs over one ticket in which only the file server varies: every answer
\* to a download under every attachment setting.
AttWorld == [CalmWorld EXCEPT !.dl = DlResponses]

AttInit ==
    \E tid \in {1001, 1002, 1003, 1004, 1005, 1006},
       scrape \in BOOLEAN, dir \in BOOLEAN, sig \in BOOLEAN,
       maxmb \in {1, 15}, minkb \in {0, 5} :
      SyncStart(<<tid>>, SyncConfig(TRUE, scrape, dir, FALSE, sig, maxmb, minkb),
                AttWorld)

\* sync_tickets is not run.
SyncIdle ==
    SyncStart(<<1001>>, SyncConfig(FALSE, FALSE, FALSE, FALSE, TRUE, 15, 5),
              AttWorld)

(***************************************************************************)
(* corretivo.py / verificar_anexos.py: fd_get, the GET with retries.       *)
(***************************************************************************)
MaxRetriesBound == 7
MaxFdCalls == 2

\* min(wait, 60.0) after a 429, min(2 ** attempt, 30) after an exception.
RetryAfterCeiling == 60
BackoffCeiling == 30

NoSleep == -1

S_0 == <<"0">>
S_5 == <<"5">>
S_120 == <<"1","2","0">>
S_http_date == <<"W","e","d",","," ","2","1">>

DigitSeq == <<"0","1","2","3","4","5","6","7","8","9">>

\* str.isdigit of a header value.
IsDigit(s) == s # << >> /\ \A i \in DOMAIN s : s[i] \in Digits

\* float(s) of a text of digits.
RECURSIVE FloatOfDigits(_)
FloatOfDigits(s) ==
    IF s = << >> THEN 0
    ELSE LET n == Len(s)
             d == CHOOSE k \in 0..9 : DigitSeq[k + 1] = s[n]
         IN 10 * FloatOfDigits(SubSeq(s, 1, n - 1)) + d

\* What sess.get meets.
FdResponses ==
    { FdHttp(200, << >>), FdHttp(404, << >>), FdHttp(500, << >>) }
    \cup { FdHttp(429, h) : h \in {<< >>, S_0, S_5, S_120, S_http_date} }
    \cup { FdNetworkFailure }

\* The wait after a 429, ignoring the header (what the loop does without it).
RetryAfterWait_Backoff(retry_after, n) == Min(2 ^ n, RetryAfterCeiling)

\* The wait after a 429 without the ceiling.
RetryAfterWait_NoCeiling(retry_after, n) ==
    IF retry_after # << >> /\ IsDigit(retry_after)
      THEN Min(FloatOfDigits(retry_after), RetryAfterCeiling)
      ELSE 2 ^ n

\* The wait after a 429.
RetryAfterWait(retry_after, n) ==
    Min(IF retry_after # << >> /\ IsDigit(retry_after)
          THEN FloatOfDigits(retry_after)
          ELSE 2 ^ n,
        RetryAfterCeiling)

\* The except clause with a back-off that is not capped.
FdExcept_NoCeiling(n, mr) ==
    IF n < mr
      THEN [pc |-> "request", attempt |-> n + 1, sleeps |-> <<2 ^ n>>]
      ELSE [pc |-> "raised", attempt |-> n, sleeps |-> << >>]

\* The except clause, with a counter that is never advanced.
FdExcept_NoCount(n, mr) ==
    IF n < mr
      THEN [pc |-> "request", attempt |-> n, sleeps |-> <<Min(2 ^ n, BackoffCeiling)>>]
      ELSE [pc |-> "raised", attempt |-> n, sleeps |-> << >>]

\* The except clause: a requests exception met with the counter at n.
FdExcept(n, mr) ==
    IF n < mr
      THEN [pc |-> "request", attempt |-> n + 1,
            sleeps |-> <<Min(2 ^ n, BackoffCeiling)>>]
      ELSE [pc |-> "raised", attempt |-> n, sleeps |-> << >>]

\* One pass of the body of `while True` with the counter at n, sess.get
\* meeting r: where the call is after it, its counter, and the sleeps made.
FdIteration(n, r, mr) ==
    IF r.kind = "exception" THEN FdExcept(n, mr)
    ELSE IF r.status = 429
      THEN LET wait == RetryAfterWait(r.retry_after, n)
           IN IF n + 1 > mr
                THEN IF RaisesForStatus(r.status)
                       THEN LET e == FdExcept(n + 1, mr)
                            IN [e EXCEPT !.sleeps = <<wait>> \o @]
                       ELSE [pc |-> "request", attempt |-> n + 1,
                             sleeps |-> <<wait>>]
                ELSE [pc |-> "request", attempt |-> n + 1, sleeps |-> <<wait>>]
    ELSE IF RaisesForStatus(r.status) THEN FdExcept(n, mr)
    ELSE [pc |-> "returned", attempt |-> n, sleeps |-> << >>]

RECURSIVE SumSeq(_)
SumSeq(s) == IF s = << >> THEN 0 ELSE Head(s) + SumSeq(Tail(s))

\* A call of fd_get with some max_retries, before its first request.
FdGetInit ==
    /\ max_retries \in 0..MaxRetriesBound
    /\ attempt = 0
    /\ fdPc = "request"
    /\ fdRequests = 0
    /\ fdResp = NoFetchResp
    /\ fdSlept = NoSleep
    /\ fdNetWait = NoSleep
    /\ fdCalls = 1

\* One pass of the loop: the request, and what follows its answer.
FdGetRequest ==
    /\ fdPc = "request"
    /\ fdRequests <= MaxRetriesBound + 2
    /\ \E r \in FdResponses :
         LET it == FdIteration(attempt, r, max_retries)
         IN /\ fdResp' = r
            /\ fdRequests' = fdRequests + 1
            /\ attempt' = it.attempt
            /\ fdPc' = it.pc
            /\ fdSlept' = IF it.sleeps = << >> THEN NoSleep ELSE SumSeq(it.sleeps)
            /\ fdNetWait' = IF r.kind = "exception" /\ it.sleeps # << >>
                            THEN SumSeq(it.sleeps) ELSE fdNetWait
    /\ UNCHANGED <<max_retries, fdCalls>>

\* The caller calls fd_get again: the counter of the new call starts at 0.
FdGetCall ==
    /\ fdPc \in {"returned", "raised"}
    /\ fdCalls < MaxFdCalls
    /\ fdCalls' = fdCalls + 1
    /\ attempt' = 0
    /\ fdPc' = "request"
    /\ fdRequests' = 0
    /\ fdResp' = NoFetchResp
    /\ fdSlept' = NoSleep
    /\ fdNetWait' = NoSleep
    /\ UNCHANGED max_retries

\* fd_get is not called.
FdGetIdle ==
    /\ max_retries = MaxRetriesBound
    /\ attempt = 0
    /\ fdPc = "returned"
    /\ fdRequests = 0
    /\ fdResp = NoFetchResp
    /\ fdSlept = NoSleep
    /\ fdNetWait = NoSleep
    /\ fdCalls = MaxFdCalls

(***************************************************************************)
(* fresh_to_supa_stage_public.py: the target ids of sync_tickets.          *)
(* Instants are seconds since an epoch; a timestamp of the API is a text   *)
(* in ISO 8601, held as its local clock reading and its UTC offset.        *)
(***************************************************************************)
MaxShifts == 1

DaySeconds == 86400

\* parse_date_ymd: midnight UTC of day d.
parse_date_ymd(d) == d * DaySeconds

\* created_to_dt.replace(hour=23, minute=59, second=59)
EndOfDay(t) == t + 23 * 3600 + 59 * 60 + 59

NoStamp == [form |-> "none", local |-> 0, off |-> 0]

\* "....Z" and "....-03:00" of the instant t.
StampZ(t) == [form |-> "Z", local |-> t, off |-> 0]
StampOffset(t, off) == [form |-> "offset", local |-> t + off, off |-> off]

\* parse_dt_obj: the UTC instant of a timestamp, None for a missing one.
parse_dt_obj(s) ==
    IF s.form = "none" THEN NoneInt
    ELSE IF s.form = "Z" THEN s.local
    ELSE s.local - s.off

ticket_in_period_Exclusive(t, created_from, created_to, updated_from, updated_to) ==
    LET cdt == parse_dt_obj(t.created_at)
        udt == parse_dt_obj(t.updated_at)
    IN /\ ~(created_from # NoneInt /\ (cdt = NoneInt \/ cdt <= created_from))
       /\ ~(created_to # NoneInt /\ (cdt = NoneInt \/ cdt >= created_to))
       /\ ~(updated_from # NoneInt /\ (udt = NoneInt \/ udt <= updated_from))
       /\ ~(updated_to # NoneInt /\ (udt = NoneInt \/ udt >= updated_to))

\* ticket_in_period
ticket_in_period(t, created_from, created_to, updated_from, updated_to) ==
    LET cdt == parse_dt_obj(t.created_at)
        udt == parse_dt_obj(t.updated_at)
    IN /\ ~(created_from # NoneInt /\ (cdt = NoneInt \/ cdt < created_from))
       /\ ~(created_to # NoneInt /\ (cdt = NoneInt \/ cdt > created_to))
       /\ ~(updated_from # NoneInt /\ (udt = NoneInt \/ udt < updated_from))
       /\ ~(updated_to # NoneInt /\ (udt = NoneInt \/ udt > updated_to))

\* When the tickets of the helpdesk were created and last updated (NoneInt:
\* the listing carries no such timestamp).  The window of the runs is day 2
\* for creation and day 3 for update.
CreatedAt(tid) ==
    CASE tid = 3001 -> parse_date_ymd(2)
      [] tid = 3002 -> EndOfDay(parse_date_ymd(2))
      [] tid = 3003 -> parse_date_ymd(2) - 1
      [] tid = 3004 -> NoneInt
      [] OTHER -> parse_date_ymd(2) + 3600

UpdatedAt(tid) ==
    CASE tid = 3001 -> parse_date_ymd(3)
      [] tid = 3002 -> EndOfDay(parse_date_ymd(3))
      [] tid = 3003 -> parse_date_ymd(4)
      [] tid = 3004 -> NoneInt
      [] OTHER -> parse_date_ymd(3) + 3600

\* An item of GET /tickets.
FdListItem(tid) ==
    [id |-> tid,
     created_at |-> IF CreatedAt(tid) = NoneInt THEN NoStamp
                    ELSE StampZ(CreatedAt(tid)),
     updated_at |-> IF UpdatedAt(tid) = NoneInt THEN NoStamp
                    ELSE IF tid = 3002 THEN StampOffset(UpdatedAt(tid), 0 - 10800)
                    ELSE StampZ(UpdatedAt(tid))]

\* Page p of the listing when n items go on a page; a server that honours
\* updated_since lists only the tickets updated at or after it.
ServerPage(s, p, n, since) ==
    LET listed == IF s.honors /\ since # NoneInt
                  THEN SelectSeq(s.listing,
                                 LAMBDA tid : UpdatedAt(tid) # NoneInt
                                              /\ UpdatedAt(tid) >= since)
                  ELSE s.listing
        first == (p - 1) * n + 1
        last == Min(p * n, Len(listed))
    IN [i \in 1..Max(0, last - first + 1) |-> FdListItem(listed[first + i - 1])]

\* api_updated_since of sync_tickets.
ApiUpdatedSince ==
    IF period.updated_from # NoneInt THEN period.updated_from
    ELSE updated_since

\* str.strip() of a token.
RECURSIVE Strip(_)
Strip(x) ==
    IF x # << >> /\ Head(x) = " " THEN Strip(Tail(x))
    ELSE IF x # << >> /\ x[Len(x)] = " " THEN Strip(SubSeq(x, 1, Len(x) - 1))
    ELSE x

\* main: the ids of --ticket-id, then the tokens of --ticket-ids that are
\* digits, without repetition; None when nothing is left.
MainIds(a) ==
    LET toks == SelectSeq(a.ticket_ids, LAMBDA x : IsDigit(Strip(x)))
    IN Dedup(a.ticket_id \o [i \in DOMAIN toks |-> FloatOfDigits(Strip(toks[i]))])

page_start == 1

\* The generator is exhausted and the for loop of sync_tickets ends: with no
\* id the function returns, otherwise the processing loop starts.
ListEnd(ids) ==
    /\ pc' = IF ids = << >> THEN "done" ELSE "fetch"
    /\ UNCHANGED <<page, dataI>>

\* sync_tickets, "1) IDs alvo": the explicit list without repetitions, or
\* the start of the paginated listing.
SyncTargets ==
    /\ pc = "targets"
    /\ IF ticket_ids # << >>
       THEN /\ found_ids' = Dedup(ticket_ids)
            /\ pc' = "fetch"
            /\ UNCHANGED page
       ELSE /\ found_ids' = << >>
            /\ page' = page_start
            /\ pc' = "list_request"
    /\ UNCHANGED <<argv, ticket_ids, page_size, period, updated_since, data,
                   dataI, listReqs, yielded, srv>>
    /\ UNCHANGED <<cfg, idx, full, batch_rows, conv_to_msg, atts, attI, ERRORS,
                   db, dbLog, files, dlReqs, lastDl, lastFetch, runsDone, world>>
    /\ UNCHANGED <<octaVars, corrVars, sideVars, fdVars>>

\* fd_paginate_tickets from the top of its loop to the first yield: the
\* request for the page, fd_get raising on an error status, the break on an
\* empty page.
ListRequest ==
    /\ pc = "list_request"
    /\ \E r \in IF srv.fails THEN {FdHttp(200, << >>), FdHttp(500, << >>)}
                ELSE {FdHttp(200, << >>)} :
        LET got == ServerPage(srv, page, page_size, ApiUpdatedSince)
        IN /\ listReqs' = Append(listReqs,
                                 [page |-> page, per_page |-> page_size,
                                  updated_since |-> ApiUpdatedSince,
                                  ok |-> fd_get(r).ok,
                                  n |-> IF fd_get(r).ok THEN Len(got) ELSE 0])
           /\ IF ~fd_get(r).ok
              THEN /\ pc' = "list_raised"
                   /\ UNCHANGED <<data, dataI, page>>
              ELSE IF got = << >>
              THEN /\ data' = got
                   /\ ListEnd(found_ids)
              ELSE /\ data' = got
                   /\ dataI' = 1
                   /\ pc' = "list_yield"
                   /\ UNCHANGED page
    /\ UNCHANGED <<argv, ticket_ids, page_size, period, updated_since, yielded,
                   srv>>
    /\ UNCHANGED <<cfg, found_ids, idx, full, batch_rows, conv_to_msg, atts,
                   attI, ERRORS, db, dbLog, files, dlReqs, lastDl, lastFetch,
                   runsDone, world>>
    /\ UNCHANGED <<octaVars, corrVars, sideVars, fdVars>>

ListYield_NoShortBreak ==
    /\ pc = "list_yield"
    /\ LET t == data[dataI]
           ids == IF ticket_in_period(t, period.created_from, period.created_to,
                                      period.updated_from, period.updated_to)
                  THEN Append(found_ids, t.id) ELSE found_ids
       IN /\ yielded' = Append(yielded, t.id)
          /\ found_ids' = ids
          /\ IF dataI < Len(data)
             THEN /\ dataI' = dataI + 1
                  /\ UNCHANGED <<pc, page>>
             ELSE /\ page' = page + 1
                  /\ pc' = "list_request"
                  /\ UNCHANGED dataI
    /\ UNCHANGED <<argv, ticket_ids, page_size, period, updated_since, data,
                   listReqs, srv>>
    /\ UNCHANGED <<cfg, idx, full, batch_rows, conv_to_msg, atts, attI, ERRORS,
                   db, dbLog, files, dlReqs, lastDl, lastFetch, runsDone, world>>
    /\ UNCHANGED <<octaVars, corrVars, sideVars, fdVars>>

\* One yield of fd_paginate_tickets and the body of the for loop of
\* sync_tickets that consumes it; after the last item of a page the
\* generator breaks on a short page or moves to the next page.
ListYield ==
    /\ pc = "list_yield"
    /\ LET t == data[dataI]
           ids == IF ticket_in_period(t, period.created_from, period.created_to,
                                      period.updated_from, period.updated_to)
                  THEN Append(found_ids, t.id) ELSE found_ids
       IN /\ yielded' = Append(yielded, t.id)
          /\ found_ids' = ids
          /\ IF dataI < Len(data)
             THEN /\ dataI' = dataI + 1
                  /\ UNCHANGED <<pc, page>>
             ELSE IF Len(data) < page_size
             THEN ListEnd(ids)
             ELSE /\ page' = page + 1
                  /\ pc' = "list_request"
                  /\ UNCHANGED dataI
    /\ UNCHANGED <<argv, ticket_ids, page_size, period, updated_since, data,
                   listReqs, srv>>
    /\ UNCHANGED <<cfg, idx, full, batch_rows, conv_to_msg, atts, attI, ERRORS,
                   db, dbLog, files, dlReqs, lastDl, lastFetch, runsDone, world>>
    /\ UNCHANGED <<octaVars, corrVars, sideVars, fdVars>>

\* While the listing is being read a ticket is opened in the helpdesk: it
\* takes the head of the listing and every other ticket moves down by one.
ServerShift ==
    /\ pc \in {"list_request", "list_yield"}
    /\ srv.shifts < MaxShifts
    /\ srv' = [srv EXCEPT !.listing = <<3005 + srv.shifts>> \o @,
                          !.shifts = @ + 1]
    /\ UNCHANGED <<argv, ticket_ids, page_size, period, updated_since, page,
                   data, dataI, listReqs, yielded>>
    /\ UNCHANGED <<syncVars, octaVars, corrVars, sideVars, fdVars>>

\* The command lines of the runs with explicit ids.
CommandLines ==
    { [ticket_id |-> << >>, ticket_ids |-> << >>],
      [ticket_id |-> <<3002, 3001>>, ticket_ids |-> << >>],
      [ticket_id |-> <<3002>>,
       ticket_ids |-> << <<"3","0","0","1">>, <<" ","3","0","0","2">>,
                         <<"a","b","c">>, <<"3","0","0","4"," ">> >>],
      [ticket_id |-> << >>,
       ticket_ids |-> << <<"3","0","0","3">>, <<"-","5">>,
                         <<"3","0","0","3">> >>] }

NoPeriod ==
    [created_from |-> NoneInt, created_to |-> NoneInt,
     updated_from |-> NoneInt, updated_to |-> NoneInt]

\* The date windows of the runs, as main builds them from its arguments.
Periods ==
    { NoPeriod,
      [NoPeriod EXCEPT !.created_from = parse_date_ymd(2),
                       !.created_to = EndOfDay(parse_date_ymd(2))],
      [NoPeriod EXCEPT !.updated_from = parse_date_ymd(3),
                       !.updated_to = EndOfDay(parse_date_ymd(3))],
      [NoPeriod EXCEPT !.created_from = parse_date_ymd(2)],
      [NoPeriod EXCEPT !.updated_to = EndOfDay(parse_date_ymd(3))],
      [created_from |-> parse_date_ymd(2),
       created_to |-> EndOfDay(parse_date_ymd(2)),
       updated_from |-> parse_date_ymd(3),
       updated_to |-> EndOfDay(parse_date_ymd(3))] }

Listings ==
    { << >>, <<3001, 3002>>, <<3003, 3001, 3004>>, <<3001, 3002, 3003, 3004>> }

CalmServer(listing) ==
    [listing |-> listing, shifts |-> 0, honors |-> TRUE, fails |-> FALSE]

\* The state main calls sync_tickets in: buffered mode, nothing failing but,
\* perhaps, the listing.
ListStart(a, n, per, since, s) ==
    /\ argv = a
    /\ ticket_ids = MainIds(a)
    /\ page_size = n
    /\ period = per
    /\ updated_since = since
    /\ page = page_start
    /\ data = << >>
    /\ dataI = 1
    /\ listReqs = << >>
    /\ yielded = << >>
    /\ srv = s
    /\ cfg = SyncConfig(FALSE, FALSE, FALSE, FALSE, TRUE, 15, 5)
    /\ found_ids = << >>
    /\ idx = 1
    /\ pc = "targets"
    /\ full = NoTicket
    /\ batch_rows = << >>
    /\ conv_to_msg = EmptyDict
    /\ atts = << >>
    /\ attI = 1
    /\ ERRORS = << >>
    /\ db = EmptyDb
    /\ dbLog = << >>
    /\ files = EmptyDict
    /\ dlReqs = << >>
    /\ lastDl = NoDl
    /\ lastFetch = NoFetch
    /\ runsDone = << >>
    /\ world = CalmWorld

\* Runs with explicit ids; listings under every window and page size; a
\* --since that the server honours or ignores; a listing that may fail.
ListInit ==
    \/ \E a \in CommandLines :
         ListStart(a, 100, NoPeriod, NoneInt, CalmServer(<<3001, 3002, 3003>>))
    \/ \E l \in Listings, n \in {1, 2}, per \in Periods :
         ListStart([ticket_id |-> << >>, ticket_ids |-> << >>], n, per, NoneInt,
                   CalmServer(l))
    \/ \E n \in {1, 2}, h \in BOOLEAN,
          per \in { p \in Periods :
                      p.created_from = NoneInt \/ p.updated_from # NoneInt } :
         ListStart([ticket_id |-> << >>, ticket_ids |-> << >>], n, per,
                   parse_date_ymd(3) + 1,
                   [CalmServer(<<3001, 3002, 3003, 3004>>) EXCEPT !.honors = h])
    \/ ListStart([ticket_id |-> << >>, ticket_ids |-> << >>], 2, NoPeriod, NoneInt,
                 [CalmServer(<<3001, 3002, 3003, 3004>>) EXCEPT !.fails = TRUE])

\* sync_tickets is given its ids and lists nothing.
ListIdle ==
    /\ argv = [ticket_id |-> << >>, ticket_ids |-> << >>]
    /\ ticket_ids = << >>
    /\ page_size = 100
    /\ period = NoPeriod
    /\ updated_since = NoneInt
    /\ page = page_start
    /\ data = << >>
    /\ dataI = 1
    /\ listReqs = << >>
    /\ yielded = << >>
    /\ srv = CalmServer(<< >>)

(***************************************************************************)
(* Calls of build_company_row and of corretivo's download_binary.          *)
(***************************************************************************)
NoRet == [kind |-> "none"]

\* The numbers a payload may carry: around both ends of the 32-bit range,
\* far outside it, spelled as text, or no number at all.
PyValues ==
    { PyInt(0, 0), PyInt(0, 120), PyInt(0, INT32_MAX), PyInt(1, 0),
      PyInt(1, 52516352), PyInt(-1, 0), PyInt(-1, INT32_MAX),
      PyInt(-2, INT32_MAX), PyDigits(0, 120), PyDigits(1, 0), PyText, PyNone }

\* The custom_fields of a company: no number field, or one under one of its
\* spellings.
CompanyCfs ==
    { << >> } \cup
    { [k \in {key} |-> v] : key \in {"numero", "cf_nmero"}, v \in PyValues }

\* Any company payload is handed to build_company_row.
RowsInit ==
    /\ \E cid \in PyValues, cf \in CompanyCfs :
         fnArg = [id |-> cid, name |-> "Acme", custom_fields |-> cf]
    /\ fnRet = NoRet

\* build_company_row returns.
BuildCompanyRow ==
    /\ fnRet = NoRet
    /\ fnRet' = [kind |-> "row", row |-> build_company_row(fnArg)]
    /\ UNCHANGED fnArg
    /\ UNCHANGED <<octaVars, corrVars, syncVars, fdVars, listVars, verVars>>

\* Answers to the download of one attachment: bodies around the size floors,
\* the Content-Length header present or not, and the failures.
DlAnswers ==
    UNION { { [kind |-> "ok", clen |-> -1, body |-> b],
              [kind |-> "ok", clen |-> b, body |-> b] } :
            b \in {0, 512, 1024, 5119, 5120, 51200} }
    \cup { r \in CorrDlOutcomes : r.kind # "ok" }

\* Any answer under any size floor is handed to download_binary.
DlInit ==
    /\ \E url \in CorrUrls, min_kb \in {0, 1, 5, 50}, o \in DlAnswers :
         fnArg = [url |-> url, min_bytes |-> Max(0, min_kb) * 1024, o |-> o]
    /\ fnRet = NoRet

\* download_binary returns.
DownloadBinary ==
    /\ fnRet = NoRet
    /\ fnRet' = [kind |-> "download",
                 ret |-> download_binary(fnArg.url, fnArg.min_bytes, fnArg.o)]
    /\ UNCHANGED fnArg
    /\ UNCHANGED <<octaVars, corrVars, syncVars, fdVars, listVars, verVars>>

\* No function is called.
PureIdle ==
    /\ fnArg = NoRet
    /\ fnRet = NoRet

(***************************************************************************)
(* verificar_anexos.py: main.                                              *)
(***************************************************************************)
VerIds == {7001, 7002, 7003}

\* How the SELECT of get_all_ticket_ids_from_db may go over a table holding
\* dbids: to its end, or to a mysql.Error at the connection or after some of
\* the rows were read.
VerReads(dbids) ==
    { [ok |-> TRUE, got |-> dbids] }
    \cup { [ok |-> FALSE, got |-> g] : g \in SUBSET dbids }

\* get_all_ticket_ids_from_db: the ids read, also when except returns them.
get_all_ticket_ids_from_db(w) == w.read.got

\* get_existing_ticket_folders
get_existing_ticket_folders(folders) == folders

\* Step 3 of main is entered: the loop over the missing ids, or past it.
VerGoMissing(missing) ==
    IF missing = {} THEN verPc' = "state" /\ verTodo' = {}
    ELSE verPc' = "missing" /\ verTodo' = missing

\* Step 1 of main and the test that opens step 2.
VerReadIds ==
    /\ verPc = "read"
    /\ LET dbi == get_all_ticket_ids_from_db(verWorld)
           loc == get_existing_ticket_folders(verFolders)
           orphan_ids == loc \ dbi
       IN /\ db_ticket_ids' = dbi
          /\ local_ticket_ids' = loc
          /\ IF orphan_ids # {}
             THEN verPc' = "orphans" /\ verTodo' = orphan_ids
             ELSE VerGoMissing(dbi \ loc)
    /\ UNCHANGED <<verWorld, verFolders, verOld, verMarkers, verCreated>>
    /\ UNCHANGED <<octaVars, corrVars, syncVars, fdVars, listVars, pureVars>>

\* Step 2: one pass of the loop over orphan_ids, shutil.move moving the
\* folder under old/ or raising.
VerMoveOrphan ==
    /\ verPc = "orphans"
    /\ \E tid \in verTodo :
         /\ IF tid \in verWorld.move_fails
            THEN UNCHANGED <<verFolders, verOld>>
            ELSE /\ verFolders' = verFolders \ {tid}
                 /\ verOld' = verOld \cup {tid}
         /\ IF verTodo = {tid}
            THEN VerGoMissing(db_ticket_ids \ local_ticket_ids)
            ELSE verPc' = verPc /\ verTodo' = verTodo \ {tid}
    /\ UNCHANGED <<verWorld, db_ticket_ids, local_ticket_ids, verMarkers,
                   verCreated>>
    /\ UNCHANGED <<octaVars, corrVars, syncVars, fdVars, listVars, pureVars>>

\* Step 3: one pass of the loop over sorted(missing_ids); the folder is made
\* once the ticket was fetched.
VerDownloadMissing ==
    /\ verPc = "missing"
    /\ LET tid == CHOOSE t \in verTodo : \A u \in verTodo : t <= u
       IN /\ verFolders' = IF tid \in verWorld.fetch_fails THEN verFolders
                           ELSE verFolders \cup {tid}
          /\ IF verTodo = {tid}
             THEN verPc' = "state" /\ verTodo' = {}
             ELSE verPc' = verPc /\ verTodo' = verTodo \ {tid}
    /\ UNCHANGED <<verWorld, db_ticket_ids, local_ticket_ids, verOld,
                   verMarkers, verCreated>>
    /\ UNCHANGED <<octaVars, corrVars, syncVars, fdVars, listVars, pureVars>>

\* Step 4: a marker for every folder found now that has none.
VerUpdateState ==
    /\ verPc = "state"
    /\ LET final_local_ids == get_existing_ticket_folders(verFolders)
       IN /\ verMarkers' = verMarkers \cup final_local_ids
          /\ verCreated' = final_local_ids \ verMarkers
    /\ verPc' = "done"
    /\ UNCHANGED <<verWorld, db_ticket_ids, local_ticket_ids, verTodo,
                   verFolders, verOld>>
    /\ UNCHANGED <<octaVars, corrVars, syncVars, fdVars, listVars, pureVars>>

\* main starts over any table and any set of folders; one folder may be
\* impossible to move and one ticket impossible to fetch; a marker may be
\* left from an earlier run.
VerInit ==
    /\ \E dbids \in SUBSET VerIds, mf \in {{}, {7001}}, ff \in {{}, {7002}} :
         \E rd \in VerReads(dbids) :
            verWorld = [db |-> dbids, read |-> rd, move_fails |-> mf,
                        fetch_fails |-> ff]
    /\ verPc = "read"
    /\ db_ticket_ids = {}
    /\ local_ticket_ids = {}
    /\ verTodo = {}
    /\ verFolders \in SUBSET VerIds
    /\ verOld = {}
    /\ verMarkers \in {{}, {7003}}
    /\ verCreated = {}

\* verificar_anexos is not run.
VerIdle ==
    /\ verWorld = [db |-> {}, read |-> [ok |-> TRUE, got |-> {}],
                   move_fails |-> {}, fetch_fails |-> {}]
    /\ verPc = "done"
    /\ db_ticket_ids = {}
    /\ local_ticket_ids = {}
    /\ verTodo = {}
    /\ verFolders = {}
    /\ verOld = {}
    /\ verMarkers = {}
    /\ verCreated = {}

(***************************************************************************)
(* Specifications.                                                         *)
(***************************************************************************)
OctaContactNext == FindContact /\ UNCHANGED <<corrVars, sideVars, syncVars, fdVars, listVars>>

OctaOrgNext == FindOrganization /\ UNCHANGED <<corrVars, sideVars, syncVars, fdVars, listVars>>

CorrNext ==
    \/ CorrSkipMarked /\ UNCHANGED <<octaVars, sideVars, syncVars, fdVars, listVars>>
    \/ CorrProcessTicket /\ UNCHANGED <<octaVars, sideVars, syncVars, fdVars, listVars>>
    \/ CorrStopInTicket /\ UNCHANGED <<octaVars, sideVars, syncVars, fdVars, listVars>>
    \/ CorrRestart /\ UNCHANGED <<octaVars, sideVars, syncVars, fdVars, listVars>>

\* One run of sync_tickets from its first id to its end.
SyncRunNext ==
    \/ SyncFetchTicket
    \/ SyncGroup
    \/ SyncAgent
    \/ SyncContact
    \/ SyncMessages
    \/ CollectConvAttachment
    \/ CollectInline
    \/ SyncPersistAttachments
    \/ SyncFinalFlush

SyncNext == SyncRunNext \/ SyncRestart

\* The listing and then the run over the ids found, no attachment collected.
ListNext ==
    \/ SyncTargets
    \/ ListRequest
    \/ ListYield
    \/ ServerShift
    \/ SyncFetchTicket
    \/ SyncGroup
    \/ SyncAgent
    \/ SyncContact
    \/ SyncMessages
    \/ SyncFinalFlush

FdGetNext ==
    \/ FdGetRequest /\ UNCHANGED <<octaVars, corrVars, sideVars, syncVars, listVars>>
    \/ FdGetCall /\ UNCHANGED <<octaVars, corrVars, sideVars, syncVars, listVars>>

\* Each specification runs one of the programs and holds the others still.
OctaOnlyInit ==
    OctaInit /\ CorrIdle /\ SyncIdle /\ FdGetIdle /\ ListIdle
    /\ PureIdle /\ VerIdle

CorrOnlyInit ==
    OctaIdle /\ CorrInit /\ SyncIdle /\ FdGetIdle /\ ListIdle
    /\ PureIdle /\ VerIdle

SyncOnlyInit ==
    OctaIdle /\ CorrIdle /\ SyncInit /\ FdGetIdle /\ ListIdle
    /\ PureIdle /\ VerIdle

AttOnlyInit ==
    OctaIdle /\ CorrIdle /\ AttInit /\ FdGetIdle /\ ListIdle
    /\ PureIdle /\ VerIdle

FdGetOnlyInit ==
    OctaIdle /\ CorrIdle /\ SyncIdle /\ FdGetInit /\ ListIdle
    /\ PureIdle /\ VerIdle

AllIdle == OctaIdle /\ CorrIdle /\ SyncIdle /\ FdGetIdle /\ ListIdle

RowsOnlyInit == AllIdle /\ RowsInit /\ VerIdle

DlOnlyInit == AllIdle /\ DlInit /\ VerIdle

VerOnlyInit == AllIdle /\ PureIdle /\ VerInit

VerNext == VerReadIds \/ VerMoveOrphan \/ VerDownloadMissing \/ VerUpdateState

\* What a step of the listing changes.
listProgress == <<pc, found_ids, page, data, dataI, listReqs, yielded>>

ListOnlyInit ==
    OctaIdle /\ CorrIdle /\ ListInit /\ FdGetIdle /\ PureIdle /\ VerIdle

\* The resolver's contact lookups of one run.
SpecOctaContact == OctaOnlyInit /\ [][OctaContactNext]_vars

\* The resolver's organization lookups of one run.
SpecOctaOrg == OctaOnlyInit /\ [][OctaOrgNext]_vars

\* corretivo's process_tickets, run and re-run over one download directory.
SpecCorr == CorrOnlyInit /\ [][CorrNext]_vars

\* sync_tickets run and re-run over one database, any service failing.
SpecSync == SyncOnlyInit /\ [][SyncNext]_vars

\* sync_tickets over one ticket with attachments, the file server answering
\* in every way.
SpecAtt == AttOnlyInit /\ [][SyncRunNext]_vars

\* sync_tickets from its arguments: the target ids, listed or given, and the
\* run over them.
SpecList == ListOnlyInit /\ [][ListNext]_vars

\* The same runs, the program never stopping while it can take a step: each
\* request has a timeout and each step of the loops is finite.
SpecListFair ==
    SpecList /\ WF_listProgress(SyncTargets \/ ListRequest \/ ListYield)

\* Calls of the retrying fd_get, sess.get answering in every way.
SpecFdGet == FdGetOnlyInit /\ [][FdGetNext]_vars

\* The same calls, the loop never stopping between two of its passes: a pass
\* ends because sess.get has a timeout and every sleep is finite.
SpecFdGetFair == SpecFdGet /\ WF_fdVars(FdGetRequest)

\* build_company_row called on any company payload.
SpecRows == RowsOnlyInit /\ [][BuildCompanyRow]_vars

\* corretivo's download_binary called on any answer of the file server.
SpecDl == DlOnlyInit /\ [][DownloadBinary]_vars

\* One run of verificar_anexos' main.
SpecVer == VerOnlyInit /\ [][VerNext]_vars

(***************************************************************************)
(* The resolver's claims.                                                  *)
(***************************************************************************)

\* C8: once an organization lookup by custom field was answered with the
\* destination's INVALID_PROPERTY error, no later call of the run sends an
\* organization-by-custom-field request again.
C8_NoOrgCfLookupAfterInvalid ==
    [][octaInvalidSeen =>
         \A k \in OctaKeys : k[1] = "org_cf" => octaReqs'[k] = octaReqs[k]]_vars

\* C9: within one run every lookup key (email, custom-field value, name) is
\* sent to the destination at most once, whatever the first answer was.
C9_AtMostOneRequestPerKey == \A k \in OctaKeys : octaReqs[k] <= 1

\* C10: once the lookup by email of e has matched, every later call with
\* email e returns that same item without sending a request, and the cached
\* entry of e stays what it was.
C10_ResolvedEmailServedFromCache ==
    [][\A e \in DOMAIN octaResolved :
          /\ e \in DOMAIN octaContactByEmail'
          /\ octaContactByEmail'[e] = octaResolved[e]
          /\ octaResolved'[e] = octaResolved[e]
          /\ (octaCalls' = octaCalls + 1 /\ octaLast'.email = e)
                => /\ octaLast'.ret = octaResolved[e]
                   /\ octaLast'.nreq = 0
                   /\ octaReqs' = octaReqs]_vars

\* C10 witness: a call found its email in the cache and answered with the
\* cached item, no request sent.
C10_Witness ==
    /\ octaLast.fn = "contact"
    /\ octaLast.hit
    /\ octaLast.nreq = 0
    /\ octaLast.ret = octaResolved[octaLast.email]
    /\ octaReqs[<<"contact_email", octaLast.email>>] = 1

(***************************************************************************)
(* corretivo's claims.                                                     *)
(***************************************************************************)

\* The download URLs of the attachments of `ticket` that handle_one does not
\* drop (no URL, or a signature-like name while blocking is on), in order.
CorrWantedUrls(ticket, block) ==
    LET Wanted(a) ==
            /\ a.attachment_url # << >>
            /\ ~(block /\ CorrSignatureLike(
                    safe_filename(OrElse(a.name,
                        OrElse(UrlTail(a.attachment_url), S_attachment)))))
        kept == SelectSeq(CorrAttsOf(ticket), Wanted)
    IN [i \in DOMAIN kept |-> kept[i].attachment_url]

\* C5: when process_tickets reaches a ticket whose marker exists, it fetches
\* nothing, downloads nothing and writes nothing; when the marker is absent
\* it fetches the ticket and, the fetch answered, sends the download of
\* every attachment the policy keeps and creates the ticket's folder.
C5_MarkerGatesProcessing ==
    [][(CorrRunning /\ corrRuns' = corrRuns /\ <<corrI, corrJ>>' # <<corrI, corrJ>>)
        => IF CorrTid \in corrMarkers
           THEN /\ corrFetches' = corrFetches
                /\ corrDls' = corrDls
                /\ corrFiles' = corrFiles
                /\ corrDirs' = corrDirs
                /\ corrMarkers' = corrMarkers
           ELSE /\ corrFetches' = [corrFetches EXCEPT ![CorrTid] = @ + 1]
                /\ corrLast'.fetch = "ok"
                     => /\ corrDls' = corrDls \o CorrWantedUrls(corrRemote[CorrTid],
                                                               corrBlockSig)
                        /\ CorrTid \in corrDirs']_vars

\* C5 witness: a ticket that was fetched once and had a file stored is
\* reached again in a second run and skipped on its marker.
C5_Witness ==
    /\ corrRuns = 2
    /\ corrLast.skipped
    /\ corrFetches[corrLast.tid] = 1
    /\ \E path \in DOMAIN corrFiles : path[1] = corrLast.tid

(***************************************************************************)
(* sync_tickets' claims.                                                   *)
(***************************************************************************)

\* C1: no failure of a database write aborts sync_tickets: the run always
\* goes on towards its normal end.
C1_WriteFailureNeverAborts == pc # "aborted"

\* C2: every message row and every attachment row written in a run comes
\* after a write of that run that carried the row of its ticket.
C2_TicketRowBeforeDependents ==
    \A j \in DOMAIN dbLog :
        dbLog[j].table \in {"messages", "attachments"}
            => \A k \in DOMAIN dbLog[j].rows :
                 \E i \in 1..(j - 1) :
                    /\ dbLog[i].table = "tickets"
                    /\ \E m \in DOMAIN dbLog[i].rows :
                         dbLog[i].rows[m].freshdesk_ticket_id
                            = dbLog[j].rows[k].freshdesk_ticket_id

\* The tables of the entities upserted by source id.
EntityTables == {"tickets", "b_groups", "agents", "companies", "contacts"}

\* C3: in every pass, once the row of a ticket, contact, company, agent or
\* group has been written its table holds exactly one row with that source
\* id, no table ever holds two rows with one source id, and writing the rows
\* of the last write once more changes nothing.
C3_OneRowPerSourceId ==
    /\ \A tbl \in EntityTables :
          Cardinality({KeyOf(tbl, db[tbl][i]) : i \in DOMAIN db[tbl]})
             = Len(db[tbl])
    /\ \A n \in DOMAIN dbLog :
          dbLog[n].table \in EntityTables
            => {KeyOf(dbLog[n].table, dbLog[n].rows[k]) : k \in DOMAIN dbLog[n].rows}
                  \subseteq {KeyOf(dbLog[n].table, db[dbLog[n].table][i]) :
                                i \in DOMAIN db[dbLog[n].table]}
    /\ (dbLog # << >> /\ dbLog[Len(dbLog)].table \in EntityTables)
          => UpsertAll(dbLog[Len(dbLog)].table, db[dbLog[Len(dbLog)].table],
                       dbLog[Len(dbLog)].rows)
             = db[dbLog[Len(dbLog)].table]

\* C3 witness: a second pass over ticket 1001 ended after the first one did,
\* both having written the ticket, its group, agent, company and contact.
C3_Witness ==
    /\ runsDone # << >>
    /\ runsDone[1].end = "done"
    /\ pc = "done"
    /\ found_ids = <<1001>>
    /\ EntityTables \subseteq {dbLog[n].table : n \in DOMAIN dbLog}
    /\ \A tbl \in EntityTables : Len(db[tbl]) = 1

\* C4: a run that follows a run which reached its normal end, over the same
\* ids and the same remote data, sends no attachment download request.
C4_SecondRunDownloadsNothing ==
    (runsDone # << >> /\ runsDone[1].end = "done") => dlReqs = << >>

(***************************************************************************)
(* The attachment collectors' claims.                                      *)
(***************************************************************************)

\* C6: with signature blocking on, the pass of
\* collect_conversation_attachments over an attachment with a URL whose
\* sanitized name or URL matches the signature pattern sends no request,
\* writes no file, returns nothing and appends one
\* attachment_skipped_signature_like entry with the ticket id; and for ticket
\* 1001 (logo.png, invoice.pdf of 50 KB) nothing but invoice.pdf is ever
\* requested, stored or returned, and invoice.pdf is requested, and returned
\* when its download succeeds.
C6_SignatureLikeSkipped ==
    [][(pc = "conv_att" /\ cfg.attach_signature_block)
        => LET a == ConvAttsOf(full.conversations)[attI].a
               name == ConvAttName(a)
               url == a.attachment_url
           IN /\ (url # << >>
                  /\ (SignatureSearch(Lower(name)) \/ SignatureSearch(Lower(url))))
                   => /\ dlReqs' = dlReqs
                      /\ files' = files
                      /\ atts' = atts
                      /\ Len(ERRORS') = Len(ERRORS) + 1
                      /\ ERRORS'[Len(ERRORS')].type
                            = "attachment_skipped_signature_like"
                      /\ ERRORS'[Len(ERRORS')].ticket_id = full.id
              /\ full.id = 1001
                   => /\ \A i \in DOMAIN dlReqs' : dlReqs'[i] = UrlOf(S_invoice_pdf)
                      /\ \A i \in DOMAIN atts' : atts'[i].name = S_invoice_pdf
                      /\ \A path \in DOMAIN files' : path = <<1001, S_invoice_pdf>>
                      /\ name = S_invoice_pdf
                           => /\ dlReqs' = <<UrlOf(S_invoice_pdf)>>
                              /\ (lastDl'.resp.kind = "ok"
                                  /\ lastDl'.resp.body.len = 51200)
                                   => /\ Len(atts') = 1
                                      /\ cfg.download_dir
                                           => DOMAIN files'
                                                = {<<1001, S_invoice_pdf>>}]_vars

\* C6 witness: the attachments of ticket 1001 were collected with blocking
\* on and a download directory: logo.png was skipped into the ledger and
\* invoice.pdf alone was requested, stored and returned.
C6_Witness ==
    /\ full.id = 1001
    /\ pc = "persist_att"
    /\ cfg.attach_signature_block
    /\ cfg.download_dir
    /\ Len(ERRORS) = 1
    /\ ERRORS[1].type = "attachment_skipped_signature_like"
    /\ ERRORS[1].extra.name = S_logo_png
    /\ dlReqs = <<UrlOf(S_invoice_pdf)>>
    /\ Len(atts) = 1
    /\ atts[1].name = S_invoice_pdf
    /\ DOMAIN files = {<<1001, S_invoice_pdf>>}

\* C7: when the answer to a download carries a Content-Type header that is
\* neither image/*, audio/*, video/* nor in the document allow-list, the
\* collector pass writes no file, returns nothing and appends a ledger entry.
C7_DisallowedHeaderTypeBlocked ==
    [][(/\ pc \in {"conv_att", "inline_att"}
        /\ lastDl' # NoDl
        /\ lastDl'.resp.kind = "ok"
        /\ lastDl'.resp.ctype # << >>
        /\ ~content_type_allowed(lastDl'.resp.ctype))
        => /\ files' = files
           /\ atts' = atts
           /\ Len(ERRORS') = Len(ERRORS) + 1]_vars

(***************************************************************************)
(* The claims about the retrying fd_get.                                   *)
(***************************************************************************)
\* A 429 whose Retry-After header is a text of digits was the last answer and
\* the loop is about to issue the next request of the call.
FdAfterRetryAfter ==
    /\ fdPc = "request"
    /\ fdResp.kind = "http"
    /\ fdResp.status = 429
    /\ IsDigit(fdResp.retry_after)

\* C11, as stated: after a 429 carrying a numeric Retry-After of n seconds the
\* next request of the call is issued at least n seconds after that answer,
\* for every n.
C11_GapAtLeastRetryAfter ==
    FdAfterRetryAfter => fdSlept >= FloatOfDigits(fdResp.retry_after)

\* C11, amended: after a 429 carrying a numeric Retry-After of n seconds the
\* next request of the call is issued at least min(n, 60) seconds after that
\* answer, and exactly that long is slept.
C11_GapAtLeastCappedRetryAfter ==
    FdAfterRetryAfter
      => LET n == FloatOfDigits(fdResp.retry_after)
         IN /\ fdSlept = (IF n <= 60 THEN n ELSE 60)
            /\ n <= 60 => fdSlept >= n

\* C11 witness: Retry-After: 5 was answered to the first request and five
\* seconds were slept before the second.
C11_Witness ==
    /\ FdAfterRetryAfter
    /\ fdResp.retry_after = S_5
    /\ fdRequests = 1
    /\ attempt = 1
    /\ fdSlept = 5

\* C12: when the last answer carries a 4xx status other than 429, the call has
\* failed with it, without a sleep and without another request to come.
C12_NonRetryableFailsAtOnce ==
    (/\ fdResp.kind = "http"
     /\ fdResp.status >= 400
     /\ fdResp.status < 500
     /\ fdResp.status # 429)
      => /\ fdPc = "raised"
         /\ fdSlept = NoSleep

\* C13: every call of fd_get ends, returning or raising, after at most
\* max_retries + 1 requests; its counter starts at 0 with the call, counts
\* answers of this call only and never exceeds max_retries + 1.
C13_FdGetTerminates ==
    /\ [](/\ fdRequests <= max_retries + 1
          /\ attempt <= max_retries + 1
          /\ attempt <= fdRequests)
    /\ (fdPc = "request") ~> (fdPc \in {"returned", "raised"})

\* C13 witness: a second call of fd_get used all its requests, the last one
\* answered by a 429, and raised with its counter at max_retries + 1.
C13_Witness ==
    /\ fdCalls = 2
    /\ max_retries = MaxRetriesBound
    /\ fdPc = "raised"
    /\ fdResp.status = 429
    /\ fdRequests = max_retries + 1
    /\ attempt = max_retries + 1

(***************************************************************************)
(* The claims about the fetch of a ticket in sync_tickets.                 *)
(***************************************************************************)
\* The answers the claims call transient: no answer at all, a 429, a 5xx.
FdTransient(r) ==
    \/ r.kind = "exception"
    \/ r.kind = "http" /\ (r.status = 429 \/ (r.status >= 500 /\ r.status < 600))

\* The answers that are no success: no answer at all, or a 4xx / 5xx status.
FdFetchFailed(r) ==
    \/ r.kind = "exception"
    \/ r.kind = "http" /\ r.status >= 400

\* C14: a ticket whose primary fetch met a transient failure (network
\* failure, 5xx, 429) is recorded as ticket_fetch_failed only after the fetch
\* was retried, that is after more than one request for it.
C14_TransientFetchRetriedBeforeFailure ==
    [][(/\ pc = "fetch"
        /\ Len(ERRORS') = Len(ERRORS) + 1
        /\ ERRORS'[Len(ERRORS')].type = "ticket_fetch_failed"
        /\ FdTransient(lastFetch'.resp))
        => lastFetch'.requests > 1]_vars

\* The ids recorded as ticket_fetch_failed in this run.
FetchFailedTids ==
    { ERRORS[k].ticket_id :
        k \in { i \in DOMAIN ERRORS : ERRORS[i].type = "ticket_fetch_failed" } }

\* The ticket ids of the rows a table received in this run.
TidsWrittenTo(tbl) ==
    UNION { { dbLog[j].rows[k].freshdesk_ticket_id : k \in DOMAIN dbLog[j].rows } :
              j \in { i \in DOMAIN dbLog : dbLog[i].table = tbl } }

\* C15: when the primary fetch of a ticket fails, that step appends one
\* ticket_fetch_failed entry with the ticket's id, writes no row and no file
\* and moves to the next id; in the whole run the ledger holds exactly one
\* such entry for the ticket, no ticket, message or attachment row and no
\* file of the ticket is written, and a run that reaches its end has fetched
\* or recorded as failed every id of its list.
C15_FetchFailureSkipsOnlyThatTicket ==
    /\ [][(pc = "fetch" /\ FdFetchFailed(lastFetch'.resp))
           => /\ Len(ERRORS') = Len(ERRORS) + 1
              /\ SubSeq(ERRORS', 1, Len(ERRORS)) = ERRORS
              /\ ERRORS'[Len(ERRORS')].type = "ticket_fetch_failed"
              /\ ERRORS'[Len(ERRORS')].ticket_id = found_ids[idx]
              /\ lastFetch'.tid = found_ids[idx]
              /\ db' = db
              /\ dbLog' = dbLog
              /\ batch_rows' = batch_rows
              /\ files' = files
              /\ idx' = idx + 1
              /\ pc' = IF idx < Len(found_ids) THEN "fetch" ELSE "final"]_vars
    /\ [][\A path \in DOMAIN files' :
             (path \notin DOMAIN files \/ files'[path] # files[path])
               => path[1] \notin FetchFailedTids']_vars
    /\ [](\A t \in FetchFailedTids :
            /\ Cardinality({ i \in DOMAIN ERRORS :
                               /\ ERRORS[i].type = "ticket_fetch_failed"
                               /\ ERRORS[i].ticket_id = t }) = 1
            /\ t \notin TidsWrittenTo("tickets")
            /\ t \notin TidsWrittenTo("messages")
            /\ t \notin TidsWrittenTo("attachments")
            /\ \A k \in DOMAIN batch_rows : batch_rows[k].freshdesk_ticket_id # t)
    /\ [](pc = "done"
            => { found_ids[i] : i \in DOMAIN found_ids }
                 \subseteq (FetchFailedTids \cup TidsWrittenTo("tickets")))

\* C15 witness: the fetch of ticket 1002 failed, the ledger holds the one
\* entry for it, and the run went on to write ticket 2001 and reached its
\* end.
C15_Witness ==
    /\ pc = "done"
    /\ found_ids = <<1002, 2001>>
    /\ Len(ERRORS) = 1
    /\ ERRORS[1].type = "ticket_fetch_failed"
    /\ ERRORS[1].ticket_id = 1002
    /\ TidsWrittenTo("tickets") = {2001}
    /\ db["tickets"] # << >>

(***************************************************************************)
(* The claims about the order and the content of the writes of one ticket. *)
(***************************************************************************)
\* C16: within a run no group, agent or contact row that a ticket row
\* references is written after that ticket row: the rows a ticket refers to
\* come first, the ticket row after them.
C16_ReferencedRowsBeforeTicketRow ==
    \A i \in DOMAIN dbLog :
       dbLog[i].table = "tickets"
         => \A j \in (i + 1)..Len(dbLog) :
              \A m \in DOMAIN dbLog[i].rows, k \in DOMAIN dbLog[j].rows :
                 /\ dbLog[j].table = "b_groups"
                      => dbLog[j].rows[k].freshdesk_group_id
                            # dbLog[i].rows[m].group_id
                 /\ dbLog[j].table = "agents"
                      => dbLog[j].rows[k].freshdesk_id
                            # dbLog[i].rows[m].responder_id
                 /\ dbLog[j].table = "contacts"
                      => dbLog[j].rows[k].freshdesk_id
                            # dbLog[i].rows[m].requester_id

\* The conversation ids of a ticket.
ConvIdsOf(t) == { t.conversations[i].id : i \in DOMAIN t.conversations } \ {0}

\* C17: while the attachments of a ticket are collected and persisted, the
\* conversation-id to message-id map holds conversations of that ticket only,
\* each mapped to the id of the messages row written for it earlier in this
\* pass; the attachments write gives every attachment without a conversation
\* a null message id and every other attachment either null or the id the
\* map holds for its conversation.
C17_AttachmentMessageIds ==
    /\ [](pc \in {"conv_att", "inline_att", "persist_att"}
            => \A c \in DOMAIN conv_to_msg :
                 /\ c \in ConvIdsOf(full)
                 /\ \E j \in DOMAIN dbLog :
                      /\ dbLog[j].table = "messages"
                      /\ \E k \in DOMAIN dbLog[j].rows :
                           /\ dbLog[j].rows[k].id = conv_to_msg[c]
                           /\ dbLog[j].rows[k].freshdesk_conv_id = c
                           /\ dbLog[j].rows[k].freshdesk_ticket_id = full.id
                 /\ \E i \in DOMAIN db["messages"] :
                      /\ db["messages"][i].id = conv_to_msg[c]
                      /\ db["messages"][i].freshdesk_conv_id = c
                      /\ db["messages"][i].freshdesk_ticket_id = full.id)
    /\ [][(pc = "persist_att" /\ atts # << >> /\ pc' # "aborted")
           => /\ Len(dbLog') = Len(dbLog) + 1
              /\ dbLog'[Len(dbLog')].table = "attachments"
              /\ Len(dbLog'[Len(dbLog')].rows) = Len(atts)
              /\ \A i \in DOMAIN atts :
                   LET row == dbLog'[Len(dbLog')].rows[i]
                       c == atts[i].conv_id
                   IN /\ row.freshdesk_ticket_id = full.id
                      /\ row.name = atts[i].name
                      /\ (c = NoneId \/ c = 0) => row.message_id = NoneId
                      /\ row.message_id # NoneId
                           => /\ c \in DOMAIN conv_to_msg
                              /\ row.message_id = conv_to_msg[c]]_vars

\* C17 witness: in a second run over the same database the attachment
\* invoice.pdf of conversation 501 of ticket 1001 was written with the id of
\* the messages row of that conversation.
C17_Witness ==
    /\ runsDone # << >>
    /\ dbLog # << >>
    /\ dbLog[Len(dbLog)].table = "attachments"
    /\ dbLog[Len(dbLog)].rows[1].freshdesk_ticket_id = 1001
    /\ dbLog[Len(dbLog)].rows[1].name = S_invoice_pdf
    /\ dbLog[Len(dbLog)].rows[1].message_id # NoneId
    /\ 501 \in DOMAIN conv_to_msg
    /\ dbLog[Len(dbLog)].rows[1].message_id = conv_to_msg[501]

\* The rows the writes log[i..] carried to table tbl, in order.
RECURSIVE RowsWritten(_, _, _)
RowsWritten(log, i, tbl) ==
    IF i > Len(log) THEN << >>
    ELSE (IF log[i].table = tbl THEN log[i].rows ELSE << >>)
         \o RowsWritten(log, i + 1, tbl)

\* The keys of the rows of a table.
KeysOf(tbl, rows) == { KeyOf(tbl, rows[i]) : i \in DOMAIN rows }

\* C18: the upserts of one step leave, in every table, one more row for each
\* key that was absent and no more row for a key that existed, and the row
\* stored under each key carries, in every column, the value of the last
\* record upserted with that key.
C18_UpsertInsertsOrOverwrites ==
    [][(Len(dbLog') > Len(dbLog) /\ SubSeq(dbLog', 1, Len(dbLog)) = dbLog)
        => \A tbl \in Tables :
             LET new == RowsWritten(dbLog', Len(dbLog) + 1, tbl)
             IN /\ Len(db'[tbl])
                    = Len(db[tbl])
                      + Cardinality(KeysOf(tbl, new) \ KeysOf(tbl, db[tbl]))
                /\ \A i \in DOMAIN new :
                     (\A j \in (i + 1)..Len(new) :
                        KeyOf(tbl, new[j]) # KeyOf(tbl, new[i]))
                       => \E s \in DOMAIN db'[tbl] :
                            /\ KeyOf(tbl, db'[tbl][s]) = KeyOf(tbl, new[i])
                            /\ \A col \in DOMAIN new[i] :
                                 db'[tbl][s][col] = new[i][col]]_vars

(***************************************************************************)
(* The claims about the size limits of the attachment collectors.          *)
(***************************************************************************)
\* C20: a conversation attachment whose declared size exceeds the configured
\* maximum, and which neither the signature filter nor the content-type
\* filter has excluded and whose download is not refused, is skipped by its
\* collector pass: no file is written, nothing is returned for persistence
\* and an attachment_skipped_too_large entry with its size in bytes is
\* appended to the ledger.
C20_DeclaredTooLargeSkipped ==
    [][(pc = "conv_att")
        => LET a == ConvAttsOf(full.conversations)[attI].a
               name == ConvAttName(a)
           IN (/\ a.size # NoneInt
               /\ a.size > cfg.max_mb * 1024 * 1024
               /\ a.attachment_url # << >>
               /\ ~(cfg.attach_signature_block
                    /\ is_signature_like(name, a.attachment_url))
               /\ content_type_allowed(OrElse(a.content_type, CT_octet_stream))
               /\ (lastDl' # NoDl => lastDl'.resp.kind = "ok"))
                => /\ files' = files
                   /\ atts' = atts
                   /\ Len(ERRORS') = Len(ERRORS) + 1
                   /\ ERRORS'[Len(ERRORS')].type = "attachment_skipped_too_large"
                   /\ ERRORS'[Len(ERRORS')].ticket_id = full.id
                   /\ ERRORS'[Len(ERRORS')].extra.size = a.size]_vars

(***************************************************************************)
(* The claim about stopping and re-running corretivo.                      *)
(***************************************************************************)
\* The one answer of a steady service.
CorrOnly(S) == CHOOSE x \in S : TRUE

\* process_tickets run without a stop over corrTickets[i..], the services
\* steady, from the markers ms and the files fs: the markers and the files
\* it ends with.
RECURSIVE CorrRunFrom(_, _, _)
CorrRunFrom(i, ms, fs) ==
    IF i > Len(corrTickets) THEN [markers |-> ms, files |-> fs]
    ELSE LET tid == corrTickets[i]
             ticket == corrRemote[tid]
         IN IF tid \in ms \/ CorrOnly(corrNet.fetch[tid]) # "ok"
            THEN CorrRunFrom(i + 1, ms, fs)
            ELSE CorrRunFrom(
                   i + 1, ms \cup {tid},
                   collect_and_download_attachments(
                       ticket, tid, fs, corrMinKb, corrBlockSig,
                       CorrOnly(CorrOutsOf(CorrAttsOf(ticket)))).files)

\* One uninterrupted run over an empty download directory.
CorrUninterrupted == CorrRunFrom(1, {}, [x \in {} |-> 0])

\* C19: with the helpdesk and the file server answering each request the
\* same way every time, a run of process_tickets that reaches its end,
\* whatever stops and restarts came before it, leaves the completion markers
\* and the attachment files of one uninterrupted run; and no step fetches a
\* ticket that has its marker or downloads anything for it.
C19_StoppedAndRerunConverges ==
    /\ []((corrNet \in CorrSteadyNets /\ ~CorrRunning)
            => /\ corrMarkers = CorrUninterrupted.markers
               /\ corrFiles = CorrUninterrupted.files)
    /\ [][\A t \in corrMarkers : corrFetches'[t] = corrFetches[t]]_vars
    /\ [][(CorrRunning /\ CorrTid \in corrMarkers)
           => corrDls' = corrDls /\ corrFiles' = corrFiles]_vars

\* C19 witness: the first run marked the first ticket and was stopped inside
\* the second, the second run skipped the first ticket, fetched the second
\* again and reached its end with both markers and files on disk.
C19_Witness ==
    /\ corrNet \in CorrSteadyNets
    /\ corrRuns = 2
    /\ ~CorrRunning
    /\ Len(corrTickets) = 2
    /\ corrFetches[corrTickets[1]] = 1
    /\ corrFetches[corrTickets[2]] = 2
    /\ corrMarkers = CorrTids
    /\ \E path \in DOMAIN corrFiles : path[1] = corrTickets[2]
    /\ corrFiles = CorrUninterrupted.files

(***************************************************************************)
(* The claims about what the attachment collectors store and return.       *)
(***************************************************************************)
\* C21: no file stored by collect_conversation_attachments or
\* collect_inline_from_description is larger than max_mb MiB or smaller than
\* min_kb KiB, and no attachment returned for persistence has a known size
\* outside these bounds, with or without a download directory.
C21_StoredAndReturnedWithinBounds ==
    LET max_bytes == cfg.max_mb * 1024 * 1024
        min_bytes == Max(0, cfg.min_attach_kb) * 1024
    IN /\ \A p \in DOMAIN files :
            files[p].len <= max_bytes /\ files[p].len >= min_bytes
       /\ \A i \in DOMAIN atts :
            atts[i].size_bytes # NoneInt
              => /\ atts[i].size_bytes <= max_bytes
                 /\ atts[i].size_bytes >= min_bytes

\* C22: every attachment name the collectors produce, the name that is
\* persisted and that names the stored file, has at most 180 characters and
\* none of the characters < > : " / \ | ? * or 0x00-0x1F.
C22_AttachmentNamesSafe ==
    /\ \A i \in DOMAIN atts :
          /\ Len(atts[i].name) <= SafeNameLen
          /\ \A k \in DOMAIN atts[i].name : atts[i].name[k] \notin IllegalChars
    /\ \A p \in DOMAIN files :
          /\ Len(p[2]) <= SafeNameLen
          /\ \A k \in DOMAIN p[2] : p[2][k] \notin IllegalChars

(***************************************************************************)
(* The claim about the ledger of the attachment collectors.                *)
(***************************************************************************)
\* The ledger types under which the collectors record a candidate that is
\* not kept.
RejectionKinds ==
    { "attachment_skipped_signature_like", "attachment_skipped_content_type",
      "attachment_skipped_too_large", "attachment_skipped_too_small",
      "conv_attachment_download_failed", "inline_blocked_by_pattern",
      "inline_skipped_too_small", "inline_skipped_content_type",
      "inline_download_failed" }

\* The collector pass about to run handles a candidate: an inline image, or
\* a conversation attachment that has a URL.
CollectorCandidate ==
    \/ pc = "inline_att"
    \/ /\ pc = "conv_att"
       /\ ConvAttsOf(full.conversations)[attI].a.attachment_url # << >>

\* C23: every collector pass over a candidate appends exactly one ledger
\* entry, carrying the ticket id, for the candidate's outcome: blocked by
\* pattern, blocked by type, skipped too large, skipped too small, download
\* failed, or saved.
C23_OneLedgerEntryPerCandidate ==
    [][CollectorCandidate
        => /\ Len(ERRORS') = Len(ERRORS) + 1
           /\ ERRORS'[Len(ERRORS')].ticket_id = found_ids[idx]
           /\ (atts' = atts => ERRORS'[Len(ERRORS')].type \in RejectionKinds)]_vars

(***************************************************************************)
(* The claim about identity resolution that ends without a match.          *)
(***************************************************************************)
\* The rows written to tbl by the writes dbLog[from..].
RowsLoggedSince(log, from, tbl) ==
    UNION { { log[j].rows[k] : k \in DOMAIN log[j].rows } :
              j \in { i \in from..Len(log) : log[i].table = tbl } }

\* The ledger entries of the given types about ticket t.
LedgerOf(t, types) ==
    { i \in DOMAIN ERRORS : ERRORS[i].ticket_id = t /\ ERRORS[i].type \in types }

\* The run is past ticket number j of its list.
PastTicket(j) == j < idx \/ pc \in {"final", "done"}

\* The conversation attachments of ticket t that no filter of the collector
\* rejects when the download is served.
KeptConvAtts(t) ==
    LET ca == ConvAttsOf(FdTicket(t).conversations)
    IN { ca[i].a : i \in { k \in DOMAIN ca :
           /\ ca[k].a.attachment_url # << >>
           /\ ~(cfg.attach_signature_block
                /\ is_signature_like(ConvAttName(ca[k].a), ca[k].a.attachment_url))
           /\ content_type_allowed(OrElse(ca[k].a.content_type, CT_octet_stream)) } }

ShortPages == { i \in DOMAIN listReqs : listReqs[i].ok /\ listReqs[i].n < page_size }

\* The generator has ended: it returned or its request raised.
ListEnded == pc \notin {"targets", "list_request", "list_yield"}

\* C25: fd_paginate_tickets requests the pages page_start, page_start + 1,
\* ... in strictly increasing order with one fixed per_page, yields every
\* item of each page in the server's order, and stops right after the first
\* page that is empty or holds fewer than per_page items: no page is
\* requested after it, and once the server has returned such a page the
\* enumeration ends.
C25_PaginationOrderAndStop ==
    /\ [](\A i \in DOMAIN listReqs :
            /\ listReqs[i].page = page_start + i - 1
            /\ listReqs[i].per_page = page_size)
    /\ [](\A i \in ShortPages : i = Len(listReqs))
    /\ [][pc = "list_request" /\ srv' = srv
           => \/ ~listReqs'[Len(listReqs')].ok
              \/ /\ data' = ServerPage(srv, page, page_size, ApiUpdatedSince)
                 /\ listReqs'[Len(listReqs')].n = Len(data')]_vars
    /\ [][pc = "list_yield" /\ srv' = srv
           => /\ yielded' = Append(yielded, data[dataI].id)
              /\ data' = data
              /\ (dataI < Len(data) => dataI' = dataI + 1 /\ pc' = "list_yield")
              /\ (dataI = Len(data) => pc' # "list_yield")]_vars
    /\ [](ListEnded /\ ticket_ids = << >> /\ listReqs # << >>
            => \/ ~listReqs[Len(listReqs)].ok
               \/ Len(listReqs) \in ShortPages)
    /\ (ShortPages # {} ~> ListEnded)
    /\ <>ListEnded

\* C25 witness: the listing was read over three pages of two, the last of
\* them short, every item yielded in order, and the generator has ended.
C25_Witness ==
    /\ ListEnded
    /\ page_size = 2
    /\ Len(listReqs) = 3
    /\ listReqs[1].n = 2 /\ listReqs[2].n = 2 /\ listReqs[3].n = 1
    /\ Len(yielded) = 5

\* C26: in paginated mode the ids that sync_tickets goes on to process hold
\* every id at most once: a ticket that the server returns on more than one
\* page of the listing is fetched and processed once in the run.
C26_ListedIdsProcessedOnce ==
    (ticket_ids = << >> /\ pc \notin {"targets", "list_request", "list_yield"})
      => /\ \A i, j \in DOMAIN found_ids :
              found_ids[i] = found_ids[j] => i = j
         /\ \A k \in DOMAIN dbLog :
              dbLog[k].table = "tickets"
                => \A m, n \in DOMAIN dbLog[k].rows :
                      dbLog[k].rows[m].freshdesk_ticket_id
                        = dbLog[k].rows[n].freshdesk_ticket_id => m = n

\* The ids the command line names, in its order: the --ticket-id values,
\* then the entries of --ticket-ids that are numbers.
NamedIds ==
    argv.ticket_id
    \o [i \in DOMAIN SelectSeq(argv.ticket_ids, LAMBDA x : IsDigit(Strip(x))) |->
          FloatOfDigits(Strip(SelectSeq(argv.ticket_ids,
                                        LAMBDA x : IsDigit(Strip(x)))[i]))]

\* The position at which id first occurs in ids.
FirstAt(ids, id) ==
    CHOOSE i \in DOMAIN ids : ids[i] = id /\ \A j \in 1..(i - 1) : ids[j] # id

\* The ids of the ticket rows the run has written, in order (the runs are
\* shorter than one batch: the final flush is their only ticket write).
TicketRowIds ==
    LET written == SelectSeq(dbLog, LAMBDA w : w.table = "tickets")
        rows == IF written = << >> THEN << >> ELSE written[1].rows
    IN [i \in DOMAIN rows |-> rows[i].freshdesk_ticket_id]

\* C27: when an explicit ticket id list is given, sync_tickets sends no
\* listing request and processes exactly the ids of the list, duplicates
\* removed, each id once, in the order of first occurrence.
C27_ExplicitIdsInOrderOnce ==
    (ticket_ids # << >> /\ pc # "targets")
      => /\ listReqs = << >>
         /\ yielded = << >>
         /\ { found_ids[i] : i \in DOMAIN found_ids }
               = { NamedIds[i] : i \in DOMAIN NamedIds }
         /\ \A i, j \in DOMAIN found_ids :
               i < j => FirstAt(NamedIds, found_ids[i])
                          < FirstAt(NamedIds, found_ids[j])
         /\ Cardinality({ k \in DOMAIN dbLog : dbLog[k].table = "tickets" }) <= 1
         /\ (pc = "done" => TicketRowIds = found_ids)

\* C27 witness: the command line named 3002, 3001, 3002 (with a blank), a
\* word and 3004; the run processed 3002, 3001 and 3004, once each, in
\* that order, and reached its end.
C27_Witness ==
    /\ pc = "done"
    /\ Len(NamedIds) = 4
    /\ found_ids = <<3002, 3001, 3004>>
    /\ TicketRowIds = <<3002, 3001, 3004>>
    /\ listReqs = << >>

\* The instant t lies in the window [from, to], a bound of NoneInt being
\* absent and a t of NoneInt a missing timestamp.
InWindow(t, from, to) ==
    /\ (from # NoneInt => t # NoneInt /\ from <= t)
    /\ (to # NoneInt => t # NoneInt /\ t <= to)

\* C28: in paginated mode the id of a listed ticket is enumerated if and
\* only if the ticket passes the local date window: created_from <=
\* created_at <= created_to and updated_from <= updated_at <= updated_to,
\* every bound inclusive and applied only when supplied, whether or not an
\* updated-since filter went to the server; a ticket without a timestamp
\* that a supplied bound tests is left out.
C28_ListedIffInPeriod ==
    [][(pc = "list_yield" /\ srv' = srv)
        => LET tid == data[dataI].id
               passes == /\ InWindow(CreatedAt(tid), period.created_from,
                                     period.created_to)
                         /\ InWindow(UpdatedAt(tid), period.updated_from,
                                     period.updated_to)
           IN /\ passes => found_ids' = Append(found_ids, tid)
              /\ ~passes => found_ids' = found_ids]_vars

\* C28 witness: under the full window and a server that ignored
\* updated_since, the listing yielded the tickets on the four bounds, the
\* one just outside and the one without timestamps; the two on the bounds
\* were enumerated and the others were not.
C28_Witness ==
    /\ ListEnded
    /\ period.created_from # NoneInt /\ period.created_to # NoneInt
    /\ period.updated_from # NoneInt /\ period.updated_to # NoneInt
    /\ ApiUpdatedSince # NoneInt
    /\ yielded = <<3001, 3002, 3003, 3004>>
    /\ found_ids = <<3001, 3002>>

(***************************************************************************)
(* The claims about the back-off of the retrying fd_get.                   *)
(***************************************************************************)
\* The step is a pass of the loop of fd_get.
FdPass == fdPc = "request" /\ fdRequests' = fdRequests + 1

\* C29: a 429 whose Retry-After is absent or not a number is followed by a
\* sleep of min(2^k, 60) seconds, k being the number of failed attempts the
\* call had made before it (1 second after the first request); no sleep
\* after a 429 is longer than 60 seconds.
C29_Backoff429 ==
    [][(FdPass /\ fdResp'.kind = "http" /\ fdResp'.status = 429)
        => /\ fdSlept' # NoSleep
           /\ fdSlept' <= 60
           /\ ~IsDigit(fdResp'.retry_after)
                => /\ fdSlept' = (IF 2 ^ fdRequests <= 60 THEN 2 ^ fdRequests
                                  ELSE 60)
                   /\ (fdRequests = 0 => fdSlept' = 1)]_vars

\* C29 witness: the seventh request of a call met a 429 without Retry-After
\* after six failed attempts, and 60 seconds were slept, not 64.
C29_Witness ==
    /\ fdRequests = 7
    /\ fdResp.kind = "http"
    /\ fdResp.status = 429
    /\ fdResp.retry_after = << >>
    /\ fdSlept = 60
    /\ fdPc = "request"

\* C30: a request that fails at network level while retries are left is
\* followed by a sleep of min(2^k, 30) seconds, k being the number of failed
\* attempts the call had made before it, and then by another request; the
\* waits of the successive network retries of a call never decrease and
\* never exceed 30 seconds.
C30_BackoffNetwork ==
    [][(FdPass /\ fdResp'.kind = "exception")
        => IF fdRequests < max_retries
           THEN /\ fdPc' = "request"
                /\ fdSlept' = (IF 2 ^ fdRequests <= 30 THEN 2 ^ fdRequests
                               ELSE 30)
                /\ fdSlept' <= 30
                /\ fdNetWait' = fdSlept'
                /\ fdNetWait # NoSleep => fdNetWait <= fdSlept'
           ELSE /\ fdPc' = "raised"
                /\ fdSlept' = NoSleep]_vars

\* C30 witness: the sixth request of a call failed at network level after an
\* earlier network failure of the same call; 30 seconds were slept, not 32,
\* and the call goes on to its next request.
C30_Witness ==
    /\ fdRequests = 6
    /\ fdResp.kind = "exception"
    /\ fdSlept = 30
    /\ fdNetWait = 30
    /\ fdPc = "request"
    /\ attempt = 6

(***************************************************************************)
(* Claims about the rows of bounded-width columns.                         *)
(***************************************************************************)
\* An integer of the signed 32-bit range.
InInt32(v) == v.kind = "int" /\ v.q \in {-1, 0}

\* C31: int32_or_none(v) returns v for every integer v of the signed 32-bit
\* range and None for every other input, and the fresh_company_id and the
\* numero of the row build_company_row returns are within that range or None.
C31_Int32Clamped ==
    fnRet.kind = "row" =>
       LET v == fnArg.id
           row == fnRet.row
       IN /\ int32_or_none(v) = IF InInt32(v) THEN v ELSE PyNone
          /\ row.fresh_company_id = PyNone \/ InInt32(row.fresh_company_id)
          /\ row.numero = PyNone \/ InInt32(row.numero)

(***************************************************************************)
(* Claims about corretivo's markers and downloads.                         *)
(***************************************************************************)
\* The attachments of `ticket` that handle_one hands to download_binary.
CorrWanted(ticket, block) ==
    LET Wanted(a) ==
            /\ a.attachment_url # << >>
            /\ ~(block /\ CorrSignatureLike(
                    safe_filename(OrElse(a.name,
                        OrElse(UrlTail(a.attachment_url), S_attachment)))))
    IN SelectSeq(CorrAttsOf(ticket), Wanted)

\* The file server may answer the download of url with a body, or a declared
\* length, under the size floor: the policy may have rejected the attachment.
CorrMaybeTooSmall(url) ==
    \E o \in corrNet.dl[url] :
       /\ o.kind = "ok"
       /\ \/ o.body < Max(0, corrMinKb) * 1024
          \/ o.clen < Max(0, corrMinKb) * 1024

\* C32: a ticket has a completion marker only if it was fetched and every
\* attachment of it that the policy does not reject was downloaded and
\* stored whole; a ticket with a failed download has no marker.
C32_MarkerOnlyAfterAllStored ==
    \A tid \in corrMarkers :
       /\ tid \in corrDirs
       /\ LET kept == CorrWanted(corrRemote[tid], corrBlockSig)
          IN \A i \in DOMAIN kept :
               LET path == <<tid, safe_filename(
                                    OrElse(kept[i].name,
                                           OrElse(UrlTail(kept[i].attachment_url),
                                                  S_attachment)))>>
               IN \/ path \in DOMAIN corrFiles /\ corrFiles[path].complete
                  \/ CorrMaybeTooSmall(kept[i].attachment_url)

\* C35: download_binary rejects an attachment as too small only when the
\* downloaded body is shorter than min_bytes; a body of at least min_bytes
\* bytes that arrives whole is stored, with or without a Content-Length
\* header.
C35_TooSmallByMeasuredSize ==
    fnRet.kind = "download" =>
       LET o == fnArg.o
           r == fnRet.ret
       IN (o.kind = "ok" /\ o.body >= fnArg.min_bytes)
             => r.ok /\ r.wrote /\ r.complete

(***************************************************************************)
(* Claims about the destination ids of the entity rows.                    *)
(***************************************************************************)
\* The column of each entity table that holds the destination id.
OctaIdColumn(tbl) ==
    CASE tbl = "contacts" -> "octa_contact_id"
      [] tbl = "companies" -> "octa_company_id"
      [] tbl = "agents" -> "octa_agent_id"
      [] OTHER -> "octa_group_id"

\* C33: a destination id recorded for a contact, company, agent or group is
\* never replaced by null by a later step of a sync pass, whether the lookup
\* of that pass is disabled, fails or finds nothing.
C33_DestinationIdNeverErased ==
    [][\A tbl \in {"contacts", "companies", "agents", "b_groups"} :
         \A i \in DOMAIN db[tbl] :
            db[tbl][i][OctaIdColumn(tbl)] # NoneStr
              => \E j \in DOMAIN db'[tbl] :
                   /\ KeyOf(tbl, db'[tbl][j]) = KeyOf(tbl, db[tbl][i])
                   /\ db'[tbl][j][OctaIdColumn(tbl)] # NoneStr]_vars

(***************************************************************************)
(* Claims about the files and records of the attachment collectors.        *)
(***************************************************************************)
\* C34: within one ticket's pass no two attachments are stored at the same
\* path: the records the collectors return for the ticket name pairwise
\* different files.
C34_NoTwoAttachmentsAtOnePath ==
    \A i, j \in DOMAIN atts :
       (i # j /\ atts[i].stored_url # << >>)
          => atts[i].stored_url # atts[j].stored_url

\* A record of a collector with its three storage fields set, or none set.
StoredRecord(r) ==
    r.stored_url # << >> /\ r.stored_at # NoneStr /\ r.sha256 # << >>

UnstoredRecord(r) ==
    r.stored_url = << >> /\ r.stored_at = NoneStr /\ r.sha256 = << >>

\* C36: in every record the collectors return, stored_url, stored_at and
\* sha256 are all null or all set; they are set exactly when a download
\* directory is configured, and then the pass that returned the record wrote
\* the file stored_url names and sha256 is the digest of exactly the bytes
\* it wrote there; a pass returning an unstored record writes nothing.
C36_StorageFieldsTogether ==
    /\ [](\A i \in DOMAIN atts :
            IF cfg.download_dir THEN StoredRecord(atts[i])
            ELSE UnstoredRecord(atts[i]))
    /\ [][(pc \in {"conv_att", "inline_att"} /\ Len(atts') = Len(atts) + 1)
            => LET r == atts'[Len(atts')]
               IN IF r.stored_url = << >> THEN files' = files
                  ELSE /\ r.stored_url \in DOMAIN files'
                       /\ r.sha256 = sha256_bytes(files'[r.stored_url])
                       /\ files'[r.stored_url] = lastDl'.resp.body
                       /\ \A p \in DOMAIN files :
                            p # r.stored_url => files'[p] = files[p]]_vars

\* C36 witness: a pass with a download directory has returned a conversation
\* attachment and an inline image, both stored, and a file on disk has the
\* digest its record carries.
C36_Witness ==
    /\ cfg.download_dir
    /\ \E i, j \in DOMAIN atts :
         /\ atts[i].conv_id # NoneId
         /\ atts[j].conv_id = NoneId
         /\ StoredRecord(atts[i])
         /\ StoredRecord(atts[j])
         /\ atts[j].stored_url \in DOMAIN files
         /\ sha256_bytes(files[atts[j].stored_url]) = atts[j].sha256

(***************************************************************************)
(* Claims about verificar_anexos.                                          *)
(***************************************************************************)
\* C37: a step of main moves a ticket folder under old/ only when the ticket
\* ids were read from the database without error and the id of the folder
\* is not among the ids of the tickets table; after a failed read no folder
\* is moved.
C37_MoveOnlyAfterGoodRead ==
    [][\A tid \in verOld' \ verOld :
          verWorld.read.ok /\ tid \notin verWorld.db]_vars

\* C38: when main has ended, every marker it created is for an id whose
\* folder is under the download directory and whose ticket is in the
\* database; no marker was created for an orphan folder.
C38_MarkersOnlyForValidFolders ==
    verPc = "done" =>
       \A tid \in verCreated : tid \in verFolders /\ tid \in verWorld.db

(***************************************************************************)
(* The claim about the end of a run.                                       *)
(***************************************************************************)
\* The ids of the run whose primary fetch succeeded, the run being at its end.
FetchedTids == { found_ids[i] : i \in DOMAIN found_ids } \ FetchFailedTids

\* C39 as stated: when a run reaches its end, the row of every ticket whose
\* primary fetch succeeded has been upserted at least once, and the buffer
\* is empty.
C39_AllFlushedAndBufferEmpty ==
    pc = "done" =>
       /\ FetchedTids \subseteq TidsWrittenTo("tickets")
       /\ batch_rows = << >>

\* C39: when a run reaches its end, the row of every ticket whose primary
\* fetch succeeded has been upserted at least once, the rows of the final
\* partial batch included, and the buffer holds no row that was not written.
C39_AllFlushedAtEnd ==
    pc = "done" =>
       /\ FetchedTids \subseteq TidsWrittenTo("tickets")
       /\ \A i \in DOMAIN batch_rows :
            \E j \in DOMAIN dbLog :
               /\ dbLog[j].table = "tickets"
               /\ \E k \in DOMAIN dbLog[j].rows : dbLog[j].rows[k] = batch_rows[i]

\* C39 witness: a run over more ids than one batch holds has ended; the
\* first 200 rows went out in the loop and the rest, a partial batch, in the
\* flush after the loop.
C39_Witness ==
    /\ pc = "done"
    /\ Len(found_ids) > BatchSize
    /\ batch_rows # << >>
    /\ Len(batch_rows) < BatchSize
    /\ Cardinality({ j \in DOMAIN dbLog : dbLog[j].table = "tickets" }) = 2
    /\ FetchedTids = { found_ids[i] : i \in DOMAIN found_ids }

====
